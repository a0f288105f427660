--------------------------- MODULE SmtpSubmission ---------------------------
(***************************************************************************)
(* How the critical worker hands one mail to the SMTP server.  The adapter *)
(* writes a command, and a reader turns what arrives, in pieces of any     *)
(* size and at any time, into replies for it; the mail is sent when the    *)
(* last command was answered, and an error tells the queue whether to try  *)
(* again.  What the queue makes of that is Outbox's.                       *)
(*                                                                         *)
(* Abstracted: commands and replies are their codes, replies have one line *)
(* or two; a piece ends with a line, what follows the last line is still   *)
(* on the wire; the message's text is left out.                            *)
(***************************************************************************)
EXTENDS Naturals, Sequences

VARIABLES
  headers,  \* whether sender, recipient and subject fit in a header line
  step,     \* the command written last; the first reply is the greeting's
  pc,       \* connect, write, next, or the outcome
  buffer,   \* the reader's: lines it has not looked at,
  begun,    \* the code of a reply whose last line has not come,
  replies,  \* replies nobody waited for,
  broken,   \* and whether it has met an error
  stream,   \* the connection: up, closed by the server, or down
  wire,     \* lines on their way to the worker
  answers,  \* history: the codes of the server's answers
  accepted, \* history: the server took the message over
  fault     \* history: a connection ended early, or a line was no answer

reader == <<buffer, begun, replies, broken>>
server == <<stream, wire, answers, accepted, fault>>
vars == <<headers, step, pc, reader, server>>

\* The greeting, EHLO, MAIL, RCPT, DATA, the message, and QUIT.
Wanted == <<{220}, {250}, {250}, {250, 251}, {354}, {250}, {221}>>
Message == 6
Refusals == {450, 550}
Outcomes == {"sent", "temporary", "permanent"}
Open == pc \in {"write", "next"}

Line(code, last) == [code |-> code, last |-> last]
Malformed == Line(0, TRUE)

Init ==
  /\ headers \in BOOLEAN
  /\ step = 1 /\ pc = "connect"
  /\ buffer = <<>> /\ begun = 0 /\ replies = <<>> /\ broken = FALSE
  /\ stream = "up" /\ wire = <<>> /\ answers = <<>> /\ accepted = FALSE /\ fault = FALSE

-----------------------------------------------------------------------------
(* The reader.  It stops at a line that is no reply, or not of the reply   *)
(* that has begun, and leaves what follows for the next piece.             *)

\* Faulty variant: each line is a reply.
LookAtEachLine(r, line) ==
  IF r.stuck THEN [r EXCEPT !.rest = Append(@, line)]
  ELSE IF line = Malformed THEN [r EXCEPT !.stuck = TRUE]
  ELSE [r EXCEPT !.begun = 0, !.replies = Append(@, line.code)]

Look(r, line) ==
  IF r.stuck THEN [r EXCEPT !.rest = Append(@, line)]
  ELSE IF line = Malformed \/ r.begun \notin {0, line.code} THEN [r EXCEPT !.stuck = TRUE]
  ELSE IF line.last THEN [r EXCEPT !.begun = 0, !.replies = Append(@, line.code)]
  ELSE [r EXCEPT !.begun = line.code]

Reads(lines) ==
  LET after[i \in 0..Len(lines)] ==
        IF i = 0 THEN [replies |-> replies, begun |-> begun, stuck |-> FALSE, rest |-> <<>>]
        ELSE Look(after[i - 1], lines[i])
  IN after[Len(lines)]

\* The reply to the command is there: the next one is written, or it is over.
Proceed(code) ==
  IF code \in Wanted[step] /\ step < Len(Wanted)
  THEN pc' = "write" /\ step' = step + 1
  ELSE /\ pc' = IF code \in Wanted[step] THEN "sent"
                ELSE IF code >= 500 THEN "permanent" ELSE "temporary"
       /\ UNCHANGED step

Rejected == pc' = "temporary" /\ UNCHANGED step

Connect ==
  /\ pc = "connect"
  /\ pc' = IF headers THEN "next" ELSE "permanent"
  /\ UNCHANGED <<headers, step, reader, server>>

ConnectFails ==
  /\ pc = "connect" /\ headers /\ pc' = "temporary" /\ fault' = TRUE
  /\ UNCHANGED <<headers, step, reader, stream, wire, answers, accepted>>

Consume(n) ==
  /\ Open /\ stream # "down" /\ n <= Len(wire) /\ wire # <<>>
  /\ wire' = SubSeq(wire, n + 1, Len(wire))
  /\ LET r == Reads(buffer \o SubSeq(wire, 1, n)) IN
     /\ buffer' = r.rest /\ begun' = r.begun /\ broken' = (broken \/ r.stuck)
     /\ IF pc = "next" /\ r.replies # <<>>
        THEN Proceed(Head(r.replies)) /\ replies' = Tail(r.replies)
        ELSE /\ replies' = r.replies
             /\ IF pc = "next" /\ r.stuck THEN Rejected ELSE UNCHANGED <<pc, step>>
  /\ UNCHANGED <<headers, stream, answers, accepted, fault>>

(* The command is written, after a drain of the socket maybe, and its      *)
(* reply is asked for: one that is there already is taken first.           *)
Written ==
  /\ pc = "write"
  /\ IF replies # <<>> THEN Proceed(Head(replies)) /\ replies' = Tail(replies)
     ELSE /\ UNCHANGED replies
          /\ IF broken THEN Rejected ELSE pc' = "next" /\ UNCHANGED step
  /\ UNCHANGED <<headers, buffer, begun, broken, server>>

(* The end of the stream, and an error or ten seconds of silence.  A write *)
(* that waits for the socket to drain fails with the error.                *)
StreamEnds ==
  /\ Open /\ stream = "closed" /\ wire = <<>> /\ ~broken
  /\ broken' = TRUE
  /\ IF pc = "next" THEN Rejected ELSE UNCHANGED <<pc, step>>
  /\ UNCHANGED <<headers, buffer, begun, replies, server>>

Breaks ==
  /\ Open /\ stream # "down"
  /\ stream' = "down" /\ wire' = <<>> /\ fault' = TRUE /\ broken' = TRUE
  /\ Rejected
  /\ UNCHANGED <<headers, buffer, begun, replies, answers, accepted>>

-----------------------------------------------------------------------------
(* The server answers the commands in their order, those that reached it   *)
(* before the worker gave up as well.                                      *)
Answer(code, lines) ==
  LET n == Len(answers) + 1 IN
  /\ pc # "connect" /\ n <= step /\ headers /\ stream # "closed"
  /\ code \in Wanted[n] \cup Refusals
  /\ answers' = Append(answers, code)
  /\ accepted' = (accepted \/ (n = Message /\ code = 250))
  /\ wire' = IF stream = "up"
             THEN wire \o [i \in 1..lines |-> Line(code, i = lines)] ELSE wire
  /\ UNCHANGED <<headers, step, pc, reader, stream, fault>>

Closes ==
  /\ Open /\ stream = "up" /\ stream' = "closed"
  /\ fault' = (fault \/ Len(answers) < Len(Wanted))
  /\ \/ wire' = wire
     \/ Len(answers) < Len(Wanted) /\ wire' = Append(wire, Line(421, TRUE))
  /\ UNCHANGED <<headers, step, pc, reader, answers, accepted>>

\* A line that is no answer.
Intrudes(line) ==
  /\ Open /\ stream = "up" /\ ~fault /\ fault' = TRUE
  /\ wire' = Append(wire, line)
  /\ UNCHANGED <<headers, step, pc, reader, stream, answers, accepted>>

Next ==
  \/ Connect \/ ConnectFails \/ Written \/ StreamEnds \/ Breaks
  \/ \E n \in 0..Len(wire) : Consume(n)
  \/ \E code \in (UNION {Wanted[n] : n \in DOMAIN Wanted}) \cup Refusals, lines \in 1..2 :
       Answer(code, lines)
  \/ Closes
  \/ \E line \in {Malformed, Line(250, TRUE), Line(250, FALSE)} : Intrudes(line)

Spec == Init /\ [][Next]_vars

-----------------------------------------------------------------------------
(* Values have their types.                                                *)
TypeOK ==
  /\ headers \in BOOLEAN /\ broken \in BOOLEAN /\ accepted \in BOOLEAN /\ fault \in BOOLEAN
  /\ step \in 1..Len(Wanted) /\ pc \in {"connect", "write", "next"} \cup Outcomes
  /\ stream \in {"up", "closed", "down"} /\ begun \in Nat
  /\ replies \in Seq(Nat) /\ answers \in Seq(Nat)
  /\ buffer \in Seq([code : Nat, last : BOOLEAN]) /\ wire \in Seq([code : Nat, last : BOOLEAN])

Pleased(i) == answers[i] \in Wanted[i]

(* The worker's verdict on a mail is the server's, in whatever pieces the  *)
(* replies came and whatever came between them.  A mail called sent was    *)
(* accepted.  One that is given up was refused for good; the server has it *)
(* only if what it refused was the farewell.  One that is tried again was  *)
(* put off by the server, or the connection or a stray line is to blame.   *)
VerdictIsTheServers ==
  /\ pc = "sent" => accepted /\ Len(answers) = Len(Wanted) /\ \A i \in DOMAIN answers : Pleased(i)
  /\ pc = "permanent" /\ headers =>
       \E i \in DOMAIN answers : answers[i] >= 500 /\ (accepted => i > Message)
  /\ pc = "temporary" => fault \/ \E i \in DOMAIN answers : ~Pleased(i) /\ answers[i] < 500
=============================================================================
