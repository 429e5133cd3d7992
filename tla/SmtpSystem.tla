----------------------------- MODULE SmtpSystem -----------------------------
(***************************************************************************)
(* The client of SmtpClient connected to a server that follows RFC 5321:   *)
(* it answers every command once, in order, over the channel the command   *)
(* came in on, may refuse anything, may say 421 and hang up at any moment, *)
(* and queues a message when it has read its terminator. It stands for the *)
(* servers the client is written for; it is not code of the repository.    *)
(***************************************************************************)
EXTENDS SmtpClient

CONSTANT Offers   \* the sets of extensions the server may advertise

ASSUME OffersAssumption == Offers \subseteq SUBSET Extensions

VARIABLES
    mode,     \* "greet", "command", "data" (between 354 and the terminator), "bye"
    open,     \* the message of the open transaction, 0 when there is none
    accepted, \* the recipients accepted in it
    served,   \* number of commands of wrote the server has read
    cut,      \* once the link is down: how many of them it can read at all
    queue     \* the messages it has taken responsibility for

serverVars == <<mode, open, accepted, served, cut, queue>>
allVars == <<vars, serverVars>>
clientVars == <<callVars, rx, link, capVars, tlsVars, closed, mech, sendVars>>

SysInit ==
    /\ Init
    /\ mode = "greet"
    /\ open = 0
    /\ accepted = {}
    /\ served = 0
    /\ cut = 0
    /\ queue = <<>>

(* A reply reaches the wire while there is a client at the other end. *)
Answer(code, offer, over) ==
    /\ IF link = "up" /\ at # "gone" /\ sec # "broken"
       THEN /\ Len(net) + Len(rx) < MaxUnread
            /\ net' = Append(net, [code |-> code, caps |-> offer, ok |-> TRUE, sec |-> over])
       ELSE UNCHANGED net
    /\ UNCHANGED clientVars

Reach == IF link = "up" THEN Len(wrote) ELSE cut
Cmd == wrote[served + 1]

(* The next command is there, in mode m. *)
Reads(m) == mode = m /\ served < Reach
Takes == Cmd.whole /\ served' = served + 1

Greet ==
    /\ mode = "greet"
    /\ \/ Answer(220, {}, sec) /\ mode' = "command"
       \/ Answer(550, {}, sec) /\ mode' = "bye"
    /\ UNCHANGED <<open, accepted, served, cut, queue>>

Refuses ==
    /\ Reads("command") /\ Takes
    /\ Answer(550, {}, Cmd.over)
    /\ UNCHANGED <<mode, open, accepted, cut, queue>>

ServeEhlo ==
    /\ Reads("command") /\ Takes /\ Cmd.verb = "EHLO"
    /\ \E offer \in Offers : Answer(250, offer, Cmd.over)
    /\ open' = 0 /\ accepted' = {}
    /\ UNCHANGED <<mode, cut, queue>>

(* Over TLS the command is refused. *)
ServeStartTls ==
    /\ Reads("command") /\ Takes /\ Cmd.verb = "STARTTLS" /\ Cmd.over = "plain"
    /\ Answer(220, {}, Cmd.over)
    /\ UNCHANGED <<mode, open, accepted, cut, queue>>

ServeAuth ==
    /\ Reads("command") /\ Takes /\ Cmd.verb \in {"AUTH", "RESPONSE"}
    /\ \E code \in {235, 334} : Answer(code, {}, Cmd.over)
    /\ UNCHANGED <<mode, open, accepted, cut, queue>>

(* A second MAIL may also be taken as a fresh start. *)
ServeMail ==
    /\ Reads("command") /\ Takes /\ Cmd.verb = "MAIL"
    /\ Answer(250, {}, Cmd.over)
    /\ open' = Cmd.msg /\ accepted' = {}
    /\ UNCHANGED <<mode, cut, queue>>

ServeRcpt ==
    /\ Reads("command") /\ Takes /\ Cmd.verb = "RCPT" /\ open # 0
    /\ Answer(250, {}, Cmd.over)
    /\ accepted' = accepted \cup {Cmd.arg}
    /\ UNCHANGED <<mode, open, cut, queue>>

ServeData ==
    /\ Reads("command") /\ Takes /\ Cmd.verb = "DATA" /\ accepted # {}
    /\ Answer(354, {}, Cmd.over)
    /\ mode' = "data"
    /\ UNCHANGED <<open, accepted, cut, queue>>

(* Between 354 and the terminator every line is text of the message. *)
ServeText ==
    /\ Reads("data")
    /\ ~(Cmd.whole /\ Cmd.verb = "BODY")
    /\ served' = served + 1
    /\ UNCHANGED <<vars, mode, open, accepted, cut, queue>>

(* The terminator: the message is queued for the accepted recipients, or refused. *)
ServeBody ==
    /\ Reads("data") /\ Takes /\ Cmd.verb = "BODY"
    /\ \/ /\ queue' = Append(queue, [msg |-> open, body |-> Cmd.msg, to |-> accepted, want |-> Cmd.arg])
          /\ Answer(250, {}, Cmd.over)
       \/ /\ UNCHANGED queue
          /\ Answer(550, {}, Cmd.over)
    /\ mode' = "command" /\ open' = 0 /\ accepted' = {}
    /\ UNCHANGED cut

ServeQuit ==
    /\ Reads("command") /\ Takes /\ Cmd.verb = "QUIT"
    /\ Answer(221, {}, Cmd.over)
    /\ mode' = "bye"
    /\ UNCHANGED <<open, accepted, cut, queue>>

(* A torn command and what follows it are one line to the server, and no   *)
(* valid command.                                                          *)
ServeTorn ==
    /\ Reads("command") /\ ~Cmd.whole
    /\ served + 1 < Reach
    /\ served' = served + 2
    /\ Answer(550, {}, wrote[served + 2].over)
    /\ UNCHANGED <<mode, open, accepted, cut, queue>>

(* 421 out of the blue. *)
HangsUp ==
    /\ mode = "command" /\ link = "up" /\ at # "gone" /\ sec # "broken"
    /\ Answer(421, {}, sec)
    /\ mode' = "bye"
    /\ UNCHANGED <<open, accepted, served, cut, queue>>

Serve ==
    \/ Greet \/ Refuses \/ ServeEhlo \/ ServeStartTls \/ ServeAuth \/ ServeMail \/ ServeRcpt
    \/ ServeData \/ ServeText \/ ServeBody \/ ServeQuit \/ ServeTorn

(* The connection breaks with commands still on their way. *)
Breaks ==
    /\ LinkDown
    /\ cut' \in served..Len(wrote)
    /\ UNCHANGED <<mode, open, accepted, served, queue>>

(* The server closes after its last reply: everything it said arrives. *)
ServerCloses ==
    /\ mode = "bye"
    /\ LinkDown /\ net' = net
    /\ cut' = served
    /\ UNCHANGED <<mode, open, accepted, served, queue>>

SysNext ==
    \/ Client /\ UNCHANGED serverVars
    \/ Serve \/ HangsUp \/ Breaks \/ ServerCloses
    \/ Terminated /\ UNCHANGED serverVars

SysSpec == SysInit /\ [][SysNext]_allVars

(* A suspended call is resumed whenever its I/O can go on, the server keeps *)
(* serving and hangs up after its last word. The caller owes nothing, and   *)
(* nothing forces the link to break or to stay up.                          *)
Fairness ==
    /\ WF_allVars(Resume /\ UNCHANGED serverVars)
    /\ WF_allVars(Serve)
    /\ WF_allVars(ServerCloses)

FairSpec == SysSpec /\ Fairness
-----------------------------------------------------------------------------
(* A send that returned Ok has its message in the server's queue, complete: *)
(* the Ok of expect_class after the terminator is the reply to that very    *)
(* message, whatever was pipelined, refused or abandoned before it.         *)
OkMeansQueued ==
    \A m \in oks : \E i \in 1..Len(queue) :
        queue[i].body = m /\ queue[i].to = 1..queue[i].want

(* All or nothing: the server never holds a message for fewer recipients    *)
(* than the caller named, nor one body under another's envelope, nor one    *)
(* message twice - also when some RCPT of a pipelined batch was refused     *)
(* after DATA had already gone out.                                         *)
QueuedIsComplete ==
    /\ \A i \in 1..Len(queue) :
          queue[i].msg = queue[i].body /\ queue[i].to = 1..queue[i].want
    /\ \A i, j \in 1..Len(queue) : queue[i].msg = queue[j].msg => i = j

(* How many replies the client still means to read. *)
Expected ==
    CASE at = "mail" -> IF pipelining THEN rcpts + 2 ELSE 1
      [] at = "rcpt" -> IF pipelining THEN todo + 1 ELSE 1
      [] at \in Reading \ {"mail", "rcpt"} -> 1
      [] OTHER -> 0

(* Client and server never lose step: as long as nobody abandons a call or  *)
(* hangs up, the commands not yet served and the replies not yet consumed   *)
(* are exactly those the current call will read. No reply is left over for  *)
(* the next command, and the client waits for no reply that will not come.  *)
InStep ==
    cancels = 0 /\ link = "up" /\ mode # "bye" /\ state # "Closed" /\ at # "gone" =>
        Len(wrote) - served + Len(net) + Len(rx) + (IF mode = "greet" THEN 1 ELSE 0) = Expected

(* Stated by docs/src/core/core.md:106, and refuted by the code: "Even if   *)
(* the server's 221 response is missing or malformed, the underlying        *)
(* transport is closed". After a send abandoned in state Data the server    *)
(* reads QUIT as text of the message, owes no reply, and quit never closes. *)
QuitCloses == at = "quit" ~> closed \/ at = "gone"
=============================================================================
