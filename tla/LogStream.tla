------------------------------- MODULE LogStream -------------------------------
(***************************************************************************)
(* One live log: HandleLogStream (SSH) or HandleGSLogs (gs-netcat) on the  *)
(* server, LogViewer in the browser.  A goroutine reads what the remote    *)
(* command prints, in chunks of whatever has arrived, cuts each chunk at   *)
(* the ends of lines and writes one message per piece; another obeys the   *)
(* Pause button; over SSH a third passes on stderr.  All of them write to  *)
(* the same WebSocket connection, which has no lock.  gorilla/websocket    *)
(* allows one writer: with two, a message may be lost, a write may fail,   *)
(* or the package panics, and a panic outside the handler's own goroutine  *)
(* ends SynCent.                                                           *)
(*                                                                         *)
(* The newest lines of a log stay in a package-level ring that outlives    *)
(* the stream, that all SSH streams of the server append to and that       *)
(* nothing reads: of it only the length is kept here.                      *)
(*                                                                         *)
(* Lines that are blank or that the noise filters drop are not looked at.  *)
(* The output is counted in half lines: line n is the halves 2n-1 and 2n.  *)
(***************************************************************************)
EXTENDS Naturals, FiniteSets, SequencesExt

CONSTANTS
  Kinds,      \* the handlers to look at
  MaxPrinted, \* bound: half lines the command prints
  MaxErrors,  \* bound: messages on stderr
  MaxMessages,\* bound: messages the client sends
  bufferMax

ASSUME KindsAssumption  == Kinds \subseteq {"ssh", "gs"}
ASSUME BoundsAssumption == {MaxPrinted, MaxErrors, MaxMessages, bufferMax} \subseteq Nat

VARIABLES
  kind,      \* which handler; it does not change
  stream,    \* "dialling", "open", "closed", or "crashed"
  live,      \* the goroutines of the handler
  stopped,   \* stopCh is closed
  over,      \* what has come to an end
  printed,   \* half lines the command has printed
  errors,    \* messages it has written to stderr, that were not read yet
  readTo,    \* half lines the reader has taken
  chunk,     \* those of them it still has to send
  writing,   \* goroutines inside WriteJSON
  clashed,   \* two of them were at the same time
  sent,      \* the messages written, each a piece [from, to] of one line
  buffer,    \* len(buffers[bufKey]), shared with other streams of the server
  paused,    \* the variable the goroutines share
  mark,      \* history: readTo when paused was last set
  pressed,   \* LogViewer's own paused
  clicks,    \* how often the button was pressed
  pings,     \* pings the client has sent; SynCent's own viewer sends none
  controls   \* pause, resume and ping messages on their way to the server

vars == <<kind, stream, live, stopped, over, printed, errors, readTo, chunk, writing,
          clashed, sent, buffer, paused, mark, pressed, clicks, pings, controls>>
remote  == <<printed, errors>>
socket  == <<writing, clashed>>
output  == <<readTo, chunk, sent, buffer>>
control == <<paused, mark, pressed, clicks, pings, controls>>

Goroutines == IF kind = "ssh" THEN {"out", "err", "in", "tick"} ELSE {"out", "in", "wait"}
Ends       == {"client", "remote", "token"}
Piece      == [from : 1 .. MaxPrinted, to : 1 .. MaxPrinted]
NoChunk    == [from |-> 1, to |-> 0]

Init ==
  /\ kind \in Kinds
  /\ stream = "dialling" /\ live = {} /\ stopped = FALSE /\ over = {}
  /\ printed = 0 /\ errors = 0
  /\ readTo = 0 /\ chunk = NoChunk /\ sent = <<>>
  /\ buffer \in IF kind = "ssh" THEN 0 .. bufferMax ELSE {0}
  /\ writing = {} /\ clashed = FALSE
  /\ paused = FALSE /\ mark = 0 /\ pressed = FALSE /\ clicks = 0
  /\ pings = 0 /\ controls = <<>>

(***************************************************************************)
(* The handler.                                                            *)
(***************************************************************************)
(* The socket is open before the remote host is dialled.  HandleGSLogs does *)
(* not look whether gs-netcat starts: then the remote end is over at once.  *)
Dial ==
  /\ stream = "dialling"
  /\ stream' = "open" /\ live' = Goroutines
  /\ UNCHANGED <<kind, stopped, over, socket, remote, output, control>>

DialFails ==
  /\ stream = "dialling"
  /\ stream' = "closed" /\ over' = Ends
  /\ UNCHANGED <<kind, live, stopped, socket, remote, output, control>>

(* <-stopCh, then the deferred Close of session, client and socket; or the  *)
(* kill of gs-netcat and the deferred Close.                                *)
Release ==
  /\ stream = "open" /\ stopped
  /\ stream' = "closed" /\ over' = over \cup {"client", "remote"}
  /\ UNCHANGED <<kind, live, stopped, socket, remote, output, control>>

Quit(g) == g \in live \ writing /\ live' = live \ {g}
Frame   == UNCHANGED <<kind, stream, over, socket, remote, output, control>>

Write(g)   == writing' = writing \cup {g} /\ clashed' = (clashed \/ writing # {})
Written(g) == g \in writing /\ writing' = writing \ {g} /\ UNCHANGED clashed

(* A second writer was noticed.                                             *)
Panic ==
  /\ clashed /\ writing # {}
  /\ stream' = "crashed" /\ live' = {} /\ writing' = {} /\ chunk' = NoChunk /\ over' = Ends
  /\ UNCHANGED <<kind, stopped, clashed, remote, readTo, sent, buffer, control>>

(***************************************************************************)
(* The goroutine that reads stdout.                                        *)
(***************************************************************************)
Idle == "out" \in live \ writing /\ chunk.from > chunk.to

(* Mutants: the whole buffer is taken, with the rest of the last read in    *)
(* it; pause is not looked at.                                              *)
ReadWholeBuffer ==
  /\ Idle /\ stream = "open"
  /\ \E n \in readTo + 1 .. printed :
       /\ readTo' = n
       /\ chunk' = IF paused THEN chunk ELSE [from |-> IF readTo > 0 THEN readTo ELSE 1, to |-> n]
  /\ UNCHANGED <<kind, stream, live, stopped, over, socket, sent, buffer, remote, control>>

ReadUnpaused ==
  /\ Idle /\ stream = "open"
  /\ \E n \in readTo + 1 .. printed : readTo' = n /\ chunk' = [from |-> readTo + 1, to |-> n]
  /\ UNCHANGED <<kind, stream, live, stopped, over, socket, sent, buffer, remote, control>>

(* stdout.Read returns any part of what was printed; what is read while     *)
(* paused is thrown away.  The goroutine looks at paused right after the     *)
(* read: a change in between is the same as one before it.                   *)
Read ==
  /\ Idle /\ stream = "open"
  /\ \E n \in readTo + 1 .. printed :
       /\ readTo' = n
       /\ chunk' = IF paused THEN chunk ELSE [from |-> readTo + 1, to |-> n]
  /\ UNCHANGED <<kind, stream, live, stopped, over, socket, sent, buffer, remote, control>>

(* The next piece of the chunk, up to the end of its line.                  *)
NextPiece == [from |-> chunk.from,
              to   |-> IF chunk.from % 2 = 1 /\ chunk.from < chunk.to
                       THEN chunk.from + 1 ELSE chunk.from]

addToBuffer == buffer' = IF buffer < bufferMax THEN buffer + 1 ELSE buffer

WriteLine ==
  /\ "out" \in live \ writing /\ chunk.from <= chunk.to
  /\ IF kind = "ssh" THEN addToBuffer ELSE UNCHANGED buffer
  /\ Write("out")
  /\ UNCHANGED <<kind, stream, live, stopped, over, readTo, chunk, sent, remote, control>>

LineWritten ==
  /\ stream = "open"
  /\ Written("out")
  /\ \/ sent' = Append(sent, NextPiece)
     \/ clashed /\ UNCHANGED sent
  /\ chunk' = [chunk EXCEPT !.from = NextPiece.to + 1]
  /\ UNCHANGED <<kind, stream, live, stopped, over, readTo, buffer, remote, control>>

(* The write fails: the goroutine returns.                                  *)
LineFails ==
  /\ "client" \in over \/ clashed
  /\ Written("out")
  /\ live' = live \ {"out"} /\ chunk' = NoChunk /\ stopped' = TRUE
  /\ UNCHANGED <<kind, stream, over, readTo, sent, buffer, remote, control>>

(* End of file, or: stopCh is closed (SSH), cmd.Wait has closed the pipe    *)
(* (gs-netcat), the session is closed.                                      *)
OutEnds ==
  /\ Idle /\ Quit("out") /\ stopped' = TRUE
  /\ \/ "remote" \in over /\ readTo = printed
     \/ kind = "ssh" /\ stopped
     \/ kind = "gs" /\ "remote" \in over /\ "wait" \notin live
     \/ stream = "closed"
  /\ Frame

(***************************************************************************)
(* stderr (SSH only).                                                      *)
(***************************************************************************)
WriteError ==
  /\ "err" \in live \ writing /\ errors > 0
  /\ errors' = errors - 1
  /\ Write("err")
  /\ UNCHANGED <<kind, stream, live, stopped, over, printed, output, control>>

ErrorWritten ==
  /\ Written("err")
  /\ UNCHANGED <<kind, stream, live, stopped, over, remote, output, control>>

ErrEnds == "remote" \in over /\ Quit("err") /\ UNCHANGED stopped /\ Frame

(***************************************************************************)
(* The goroutine that reads the socket.  Both handlers answer a ping, only *)
(* HandleLogStream also a pause and a resume.                              *)
(***************************************************************************)
(* Mutant: both handlers answer everything.                                 *)
AnswersAlways(c) == TRUE
Answers(c) == kind = "ssh" \/ c = "ping"

(* Mutant: resume is forgotten.                                             *)
ObeyPauseOnly(c) == paused' = (paused \/ c = "pause") /\ mark' = readTo

Obey(c) == /\ paused' = IF c = "ping" THEN paused ELSE c = "pause"
           /\ mark' = IF c = "pause" THEN readTo ELSE mark

ReadControl ==
  /\ "in" \in live \ writing /\ "client" \notin over /\ controls # <<>>
  /\ Obey(Head(controls))
  /\ controls' = Tail(controls)
  /\ IF Answers(Head(controls)) THEN Write("in") ELSE UNCHANGED socket
  /\ UNCHANGED <<kind, stream, live, stopped, over, remote, output, pressed, clicks, pings>>

AnswerWritten ==
  /\ Written("in")
  /\ UNCHANGED <<kind, stream, live, stopped, over, remote, output, control>>

(* Mutant: nobody is told.                                                  *)
InEndsAlone == "client" \in over /\ Quit("in") /\ UNCHANGED stopped /\ Frame

InEnds == "client" \in over /\ Quit("in") /\ stopped' = TRUE /\ Frame

(***************************************************************************)
(* The ticker (SSH) and cmd.Wait (gs-netcat).                              *)
(***************************************************************************)
TickEnds ==
  /\ stopped \/ "token" \in over
  /\ Quit("tick") /\ stopped' = TRUE /\ Frame

WaitEnds == "remote" \in over /\ Quit("wait") /\ stopped' = TRUE /\ Frame

(***************************************************************************)
(* The browser and the remote host.                                        *)
(***************************************************************************)
(* togglePause, while the socket is open.                                   *)
TogglePause ==
  /\ "client" \notin over /\ clicks + pings < MaxMessages
  /\ controls' = Append(controls, IF pressed THEN "resume" ELSE "pause")
  /\ pressed' = ~pressed /\ clicks' = clicks + 1
  /\ UNCHANGED <<kind, stream, live, stopped, over, socket, remote, output, paused, mark, pings>>

(* A client of another make.                                                *)
SendPing ==
  /\ "client" \notin over /\ clicks + pings < MaxMessages
  /\ controls' = Append(controls, "ping") /\ pings' = pings + 1
  /\ UNCHANGED <<kind, stream, live, stopped, over, socket, remote, output, paused, mark, pressed,
                 clicks>>

(* Another SSH stream of the same server and log adds a line.               *)
OtherStream ==
  /\ kind = "ssh" /\ stream # "crashed"
  /\ addToBuffer
  /\ UNCHANGED <<kind, stream, live, stopped, over, socket, remote, readTo, chunk, sent, control>>

RemotePrints ==
  /\ stream = "open" /\ "remote" \notin over
  /\ \/ printed < MaxPrinted /\ printed' = printed + 1 /\ UNCHANGED errors
     \/ kind = "ssh" /\ errors < MaxErrors /\ errors' = errors + 1 /\ UNCHANGED printed
  /\ UNCHANGED <<kind, stream, live, stopped, over, socket, output, control>>

(* The viewer leaves the page, the command ends, the access token expires.  *)
Happens ==
  /\ stream \in {"dialling", "open"}
  /\ \E e \in Ends \ over : (e = "remote" => stream = "open") /\ over' = over \cup {e}
  /\ UNCHANGED <<kind, stream, live, stopped, socket, remote, output, control>>

Handler == Dial \/ DialFails \/ Release
Out     == Read \/ WriteLine \/ LineWritten \/ LineFails \/ OutEnds
Err     == WriteError \/ ErrorWritten \/ ErrEnds
In      == ReadControl \/ AnswerWritten \/ InEnds

Next ==
  \/ Handler \/ Out \/ Err \/ In \/ TickEnds \/ WaitEnds
  \/ Panic \/ TogglePause \/ SendPing \/ OtherStream \/ RemotePrints \/ Happens

Spec == Init /\ [][Next]_vars

(* Goroutines that can run do, and a write to the socket ends: the kernel    *)
(* takes it or reports an error.  Neither the viewer nor the remote host is  *)
(* obliged to do anything.                                                   *)
Fairness ==
  /\ WF_vars(Handler) /\ WF_vars(Out) /\ WF_vars(Err) /\ WF_vars(In)
  /\ WF_vars(TickEnds) /\ WF_vars(WaitEnds)

FairSpec == Spec /\ Fairness
-----------------------------------------------------------------------------
LTypeOK ==
  /\ kind \in Kinds /\ stream \in {"dialling", "open", "closed", "crashed"}
  /\ live \subseteq Goroutines /\ stopped \in BOOLEAN /\ over \subseteq Ends
  /\ writing \subseteq {"out", "err", "in"} /\ clashed \in BOOLEAN
  /\ printed \in 0 .. MaxPrinted /\ errors \in 0 .. MaxErrors /\ readTo \in 0 .. printed
  /\ sent \in Seq(Piece) /\ buffer \in 0 .. bufferMax
  /\ paused \in BOOLEAN /\ pressed \in BOOLEAN
  /\ controls \in Seq({"pause", "resume", "ping"})

(* What reaches the viewer is the log in order, no half line twice; without  *)
(* a gap, as long as the viewer never paused and no two writers met.         *)
LogInOrder ==
  \A i \in DOMAIN sent :
    /\ sent[i].from <= sent[i].to
    /\ i > 1 => sent[i - 1].to < sent[i].from
    /\ clicks = 0 /\ ~clashed => sent[i].from = (IF i = 1 THEN 1 ELSE sent[i - 1].to + 1)

(* Once the pause has reached the server, only what was in the reader's      *)
(* hands by then still goes out.                                             *)
PauseTakesHold == [][paused /\ sent' # sent => Last(sent').to <= mark]_vars

(* When no pause or resume is on its way the button shows what the server    *)
(* does.                                                                     *)
ButtonTellsTruth ==
  stream = "open" /\ "client" \notin over /\ (\A i \in DOMAIN controls : controls[i] = "ping")
    => pressed = paused

(* Two writers can only meet when the client has sent a message the handler  *)
(* answers (over SSH any, over gs-netcat a ping) or the command writes to    *)
(* stderr over SSH.  A stream over gs-netcat in SynCent's own viewer, and    *)
(* one over SSH that is only watched, has one writer and cannot bring the    *)
(* process down.                                                             *)
WritersMeet ==
  [][clashed' /\ ~clashed =>
       \/ pings > 0
       \/ kind = "ssh" /\ (clicks > 0 \/ "err" \in writing \/ errors > 0)]_vars

(* The safety half of StreamEnds.  As long as stopCh is open, everybody who  *)
(* closes it is there; whoever is left when the handler has returned finds   *)
(* stopCh, the session and the socket closed, so that he ends.               *)
StreamCanEnd ==
  /\ stream = "open" /\ ~stopped =>
       {"out", "in", IF kind = "ssh" THEN "tick" ELSE "wait"} \subseteq live
  /\ stream = "closed" /\ live # {} => stopped /\ {"client", "remote"} \subseteq over
  /\ stream \in {"dialling", "crashed"} => live = {}
  /\ writing \subseteq live

(* When the viewer leaves, the command ends or, over SSH, the token expires, *)
(* the handler and all its goroutines end (or the process has).              *)
StreamEnds ==
  (/\ stream = "open"
   /\ over \cap (IF kind = "ssh" THEN Ends ELSE {"client", "remote"}) # {})
  ~> (stream \in {"closed", "crashed"} /\ live = {})
=============================================================================
