---------------------------- MODULE LogStream_proofs ----------------------------
(***************************************************************************)
(* For either handler, output of any length, and any number of clicks and  *)
(* messages on stderr.                                                     *)
(***************************************************************************)
EXTENDS LogStream, SequenceTheorems, TLAPS

(* What the goroutines hold: the chunk is the end of what was read, nobody  *)
(* writes who does not live, and before the host was dialled there is       *)
(* nothing.                                                                 *)
Shape ==
  /\ chunk \in [from : Nat \ {0}, to : Nat]
  /\ chunk.from <= chunk.to + 1 /\ chunk.to <= readTo
  /\ mark \in Nat /\ clicks \in Nat /\ pings \in Nat
  /\ writing \subseteq live
  /\ "out" \in writing => chunk.from <= chunk.to
  /\ stream = "dialling" => live = {} /\ readTo = 0 /\ sent = <<>> /\ chunk = NoChunk

USE BoundsAssumption, KindsAssumption

(* The bounds are numbers.                                                   *)
LEMMA NumbersAreNat ==
  MaxPrinted \in Nat /\ MaxErrors \in Nat /\ MaxMessages \in Nat /\ bufferMax \in Nat
OBVIOUS

(* A place in an interval of positive numbers.                               *)
LEMMA PlaceFacts ==
  ASSUME NEW a \in Nat \ {0}, NEW b \in Nat, NEW n \in a .. b
  PROVE  n \in Nat /\ n + 1 \in Nat \ {0} /\ n <= b
OBVIOUS

(* The next piece lies in the chunk, at its beginning.                      *)
LEMMA NextPieceInChunk ==
  ASSUME LTypeOK, Shape, chunk.from <= chunk.to
  PROVE  /\ NextPiece \in Piece
         /\ NextPiece.from = chunk.from
         /\ NextPiece.to \in chunk.from .. chunk.to
<1>1. /\ chunk.from \in Nat /\ chunk.to \in Nat /\ chunk.from >= 1 /\ chunk.to <= MaxPrinted
  BY NumbersAreNat DEF LTypeOK, Shape
<1>2. chunk.from < chunk.to => chunk.from + 1 \in chunk.from .. chunk.to
  BY <1>1
<1>3. (IF chunk.from % 2 = 1 /\ chunk.from < chunk.to THEN chunk.from + 1 ELSE chunk.from)
        \in chunk.from .. chunk.to
  BY <1>1, <1>2
<1> QED
  BY <1>1, <1>3, NumbersAreNat DEF NextPiece, Piece

(* Types and shape at the beginning.                                         *)
LEMMA ShapeInit == Init => LTypeOK /\ Shape
<1> SUFFICES ASSUME Init PROVE LTypeOK /\ Shape
  OBVIOUS
<1>1. <<>> \in Seq(Piece) /\ <<>> \in Seq({"pause", "resume", "ping"})
  OBVIOUS
<1>2. stopped \in BOOLEAN /\ clashed \in BOOLEAN /\ paused \in BOOLEAN /\ pressed \in BOOLEAN
  BY DEF Init
<1>3. LTypeOK
  BY <1>1, <1>2, NumbersAreNat DEF Init, LTypeOK
<1>4. Shape
  BY DEF Init, Shape, NoChunk
<1> QED
  BY <1>3, <1>4

(* Shape is inductive together with the types.                               *)
LEMMA ShapeStep == LTypeOK /\ Shape /\ [Next]_vars => (LTypeOK /\ Shape)'
<1> SUFFICES ASSUME LTypeOK, Shape, [Next]_vars PROVE LTypeOK' /\ Shape'
  OBVIOUS
<1> USE DEF LTypeOK, Shape
<1>1. CASE Dial
  BY <1>1 DEF Dial, Goroutines, socket, remote, output, control
<1>2. CASE DialFails
  BY <1>2 DEF DialFails, Goroutines, socket, remote, output, control
<1>3. CASE Release
  BY <1>3 DEF Release, Goroutines, Ends, socket, remote, output, control
<1>4. CASE Read
  BY <1>4 DEF Read, Idle, Goroutines, socket, remote, output, control
<1>5. CASE WriteLine
  <2>1. buffer' \in 0 .. bufferMax
    BY <1>5, NumbersAreNat DEF WriteLine, addToBuffer
  <2> QED
    BY <1>5, <2>1 DEF WriteLine, Write, Goroutines, socket, remote, output, control
<1>6. CASE LineWritten
  <2>1. NextPiece \in Piece /\ NextPiece.to \in chunk.from .. chunk.to
    BY <1>6, NextPieceInChunk DEF LineWritten, Written
  <2>2. sent' \in Seq(Piece)
    <3>1. CASE sent' = Append(sent, NextPiece)
      BY <2>1, <3>1
    <3>2. CASE UNCHANGED sent
      BY <3>2
    <3> QED
      BY <1>6, <3>1, <3>2 DEF LineWritten
  <2>3. chunk.from \in Nat \ {0} /\ chunk.to \in Nat
    BY DEF Shape
  <2>4. NextPiece.to \in Nat /\ NextPiece.to + 1 \in Nat \ {0} /\ NextPiece.to <= chunk.to
    BY <2>1, <2>3, PlaceFacts
  <2>5. chunk' = [from |-> NextPiece.to + 1, to |-> chunk.to]
    BY <1>6 DEF LineWritten, Shape
  <2>6. /\ chunk' \in [from : Nat \ {0}, to : Nat]
        /\ chunk'.from <= chunk'.to + 1 /\ chunk'.to = chunk.to
    BY <2>3, <2>4, <2>5
  <2> QED
    BY <1>6, <2>2, <2>6 DEF LineWritten, Written, Goroutines, socket, remote, output, control
<1>7. CASE LineFails
  BY <1>7 DEF LineFails, Written, NoChunk, Goroutines, socket, remote, output, control
<1>8. CASE OutEnds
  BY <1>8 DEF OutEnds, Quit, Idle, Frame, Goroutines, socket, remote, output, control
<1>9. CASE WriteError
  BY <1>9 DEF WriteError, Write, Goroutines, socket, remote, output, control
<1>10. CASE ErrorWritten
  BY <1>10 DEF ErrorWritten, Written, Goroutines, socket, remote, output, control
<1>11. CASE ErrEnds
  BY <1>11 DEF ErrEnds, Quit, Frame, Goroutines, socket, remote, output, control
<1>12. CASE ReadControl
  <2>1. paused' \in BOOLEAN
    BY <1>12, Zenon DEF ReadControl, Obey
  <2>2. controls' \in Seq({"pause", "resume", "ping"})
    BY <1>12 DEF ReadControl
  <2>3. mark' \in Nat
    BY <1>12 DEF ReadControl, Obey
  <2>4. clashed' \in BOOLEAN
    BY <1>12, Zenon DEF ReadControl, Write, socket
  <2>5. writing' \subseteq writing \cup {"in"} /\ "in" \in live
    BY <1>12, Zenon DEF ReadControl, Write, socket
  <2> QED
    BY <1>12, <2>1, <2>2, <2>3, <2>4, <2>5 DEF ReadControl, Goroutines, socket, remote, output, control
<1>13. CASE AnswerWritten
  BY <1>13 DEF AnswerWritten, Written, Goroutines, socket, remote, output, control
<1>14. CASE InEnds
  BY <1>14 DEF InEnds, Quit, Frame, Goroutines, socket, remote, output, control
<1>15. CASE TickEnds
  BY <1>15 DEF TickEnds, Quit, Frame, Goroutines, socket, remote, output, control
<1>16. CASE WaitEnds
  BY <1>16 DEF WaitEnds, Quit, Frame, Goroutines, socket, remote, output, control
<1>17. CASE Panic
  BY <1>17 DEF Panic, NoChunk, Goroutines, socket, remote, output, control
<1>18. CASE TogglePause
  BY <1>18 DEF TogglePause, Goroutines, socket, remote, output, control
<1>22. CASE SendPing
  BY <1>22 DEF SendPing, Goroutines, socket, remote, output, control
<1>23. CASE OtherStream
  <2>1. buffer' \in 0 .. bufferMax
    BY <1>23, NumbersAreNat DEF OtherStream, addToBuffer
  <2> QED
    BY <1>23, <2>1 DEF OtherStream, Goroutines, socket, remote, control
<1>19. CASE RemotePrints
  BY <1>19, NumbersAreNat DEF RemotePrints, Goroutines, socket, remote, output, control
<1>20. CASE Happens
  BY <1>20 DEF Happens, Goroutines, Ends, socket, remote, output, control
<1>21. CASE UNCHANGED vars
  BY <1>21 DEF vars, Goroutines, socket, remote, output, control
<1> QED
  BY <1>1, <1>2, <1>3, <1>4, <1>5, <1>6, <1>7, <1>8, <1>9, <1>10, <1>11, <1>12, <1>13, <1>14,
     <1>15, <1>16, <1>17, <1>18, <1>19, <1>20, <1>21, <1>22, <1>23
     DEF Next, Handler, Out, Err, In

(* The variables keep their types and the ring its size.                    *)
THEOREM LogTypeCorrect == Spec => []LTypeOK
<1>1. Init => LTypeOK /\ Shape
  BY ShapeInit
<1>2. LTypeOK /\ Shape /\ [Next]_vars => (LTypeOK /\ Shape)'
  BY ShapeStep
<1> QED
  BY <1>1, <1>2, PTL DEF Spec

(* The other steps leave the output and the pause alone.                     *)
Aside ==
  /\ UNCHANGED <<kind, readTo, chunk, sent, paused, mark, pressed, clicks, pings, controls>>
  /\ live' \subseteq live /\ over \subseteq over'
  /\ clashed => clashed'
  /\ writing' \subseteq writing \cup {"out", "err"}

(* Only eight kinds of steps touch the output or the pause.                  *)
LEMMA MostStepsAreAside ==
  ASSUME LTypeOK, [Next]_vars
  PROVE  \/ Dial \/ Read \/ LineWritten \/ LineFails \/ Panic
         \/ ReadControl \/ TogglePause \/ SendPing \/ Aside
<1> USE DEF LTypeOK, Aside, socket, remote, output, control
<1>1. CASE DialFails \/ Release
  BY <1>1 DEF DialFails, Release
<1>2. CASE WriteLine
  BY <1>2 DEF WriteLine, Write
<1>3. CASE OutEnds
  BY <1>3 DEF OutEnds, Quit, Idle, Frame
<1>4. CASE WriteError
  BY <1>4 DEF WriteError, Write
<1>5. CASE ErrorWritten \/ AnswerWritten
  BY <1>5 DEF ErrorWritten, AnswerWritten, Written
<1>6. CASE ErrEnds \/ InEnds \/ TickEnds \/ WaitEnds
  BY <1>6 DEF ErrEnds, InEnds, TickEnds, WaitEnds, Quit, Frame
<1>7. CASE RemotePrints \/ OtherStream
  BY <1>7 DEF RemotePrints, OtherStream
<1>8. CASE Happens
  BY <1>8 DEF Happens
<1>9. CASE UNCHANGED vars
  BY <1>9 DEF vars
<1> QED
  BY <1>1, <1>2, <1>3, <1>4, <1>5, <1>6, <1>7, <1>8, <1>9 DEF Next, Handler, Out, Err, In

(***************************************************************************)
(* The pause.                                                              *)
(***************************************************************************)
(* What is in the reader's hands while paused was read before.              *)
Hold == paused /\ chunk.from <= chunk.to => chunk.to <= mark

(* The button is what paused will be when the messages have arrived: what    *)
(* the last pause or resume among them says.                                 *)
AllPings(c)     == \A i \in DOMAIN c : c[i] = "ping"
LastAsks(c, i)  == c[i] # "ping" /\ \A j \in DOMAIN c : j > i => c[j] = "ping"
Intended ==
  "client" \notin over =>
    /\ AllPings(controls) => (pressed <=> paused)
    /\ \A i \in DOMAIN controls : LastAsks(controls, i) => (pressed <=> controls[i] = "pause")

(* Who may write beside the reader of stdout, and when.                     *)
Company ==
  /\ "in" \in writing => pings > 0 \/ (kind = "ssh" /\ clicks > 0)
  /\ \A i \in DOMAIN controls : IF controls[i] = "ping" THEN pings > 0 ELSE clicks > 0
  /\ paused => clicks > 0
  /\ "err" \in live => kind = "ssh"

(* Hold is inductive: what the reader still holds was read before the pause. *)
LEMMA HoldStep ==
  ASSUME LTypeOK, Shape, Hold, [Next]_vars
  PROVE  Hold'
<1> USE DEF LTypeOK, Shape, Hold
<1>1. CASE Dial
  BY <1>1 DEF Dial, output, control
<1>2. CASE Read
  BY <1>2 DEF Read, Idle, control
<1>3. CASE LineWritten
  <2>1. chunk.from <= chunk.to /\ UNCHANGED <<paused, mark>>
    BY <1>3 DEF LineWritten, Written, control
  <2>2. chunk'.to = chunk.to
    BY <1>3 DEF LineWritten
  <2> QED
    BY <2>1, <2>2
<1>4. CASE LineFails \/ Panic
  <2>1. chunk' = NoChunk
    BY <1>4 DEF LineFails, Panic
  <2> QED
    BY <2>1 DEF NoChunk
<1>5. CASE ReadControl
  <2>1. /\ UNCHANGED chunk
        /\ (paused' => mark' = readTo) \/ UNCHANGED <<paused, mark>>
    BY <1>5, Zenon DEF ReadControl, Obey, output
  <2> QED
    BY <2>1
<1>6. CASE TogglePause \/ SendPing
  BY <1>6 DEF TogglePause, SendPing, output
<1>7. CASE Aside
  BY <1>7 DEF Aside
<1> QED
  BY <1>1, <1>2, <1>3, <1>4, <1>5, <1>6, <1>7, MostStepsAreAside

(* A pause that has reached the server holds.                               *)
THEOREM PauseHolds == Spec => PauseTakesHold
<1>1. Init => LTypeOK /\ Shape /\ Hold
  BY ShapeInit DEF Init, Hold
<1>2. LTypeOK /\ Shape /\ Hold /\ [Next]_vars => (LTypeOK /\ Shape /\ Hold)'
  BY ShapeStep, HoldStep
<1>3. LTypeOK /\ Shape /\ Hold /\ [Next]_vars
        => [paused /\ sent' # sent => Last(sent').to <= mark]_vars
  <2> SUFFICES ASSUME LTypeOK, Shape, Hold, [Next]_vars, paused, sent' # sent
               PROVE  Last(sent').to <= mark
    OBVIOUS
  <2>1. LineWritten
    BY MostStepsAreAside
       DEF Dial, Read, LineFails, Panic, ReadControl, TogglePause, SendPing, Aside, output
  <2>2. sent' = Append(sent, NextPiece) /\ chunk.from <= chunk.to
    BY <2>1 DEF LineWritten, Written, Shape
  <2>3. NextPiece.to \in chunk.from .. chunk.to /\ NextPiece \in Piece
    BY <2>2, NextPieceInChunk
  <2>4. Last(sent') = NextPiece
    BY <2>2, <2>3 DEF Last, LTypeOK
  <2> QED
    BY <2>2, <2>3, <2>4 DEF Hold, Shape
<1> QED
  BY <1>1, <1>2, <1>3, PTL DEF Spec, PauseTakesHold

(* Intended is inductive: messages on their way lead the server to what the  *)
(* button shows.                                                             *)
LEMMA IntendedStep ==
  ASSUME LTypeOK, Intended, [Next]_vars
  PROVE  Intended'
<1> USE DEF LTypeOK, Intended
<1>1. CASE Dial \/ Read \/ LineWritten \/ LineFails
  <2>1. UNCHANGED <<over, pressed, controls, paused>>
    BY <1>1 DEF Dial, Read, LineWritten, LineFails, control
  <2> QED
    BY <2>1, Zenon
<1>2. CASE Panic
  BY <1>2 DEF Panic, Ends
<1>3. CASE ReadControl
  <2>1. /\ controls \in Seq({"pause", "resume", "ping"}) /\ controls # <<>>
        /\ controls' = Tail(controls) /\ UNCHANGED <<over, pressed>>
        /\ paused' = IF Head(controls) = "ping" THEN paused ELSE Head(controls) = "pause"
    BY <1>3, Zenon DEF ReadControl, Obey
  <2>2. /\ DOMAIN controls' = 1 .. Len(controls) - 1 /\ DOMAIN controls = 1 .. Len(controls)
        /\ \A i \in 1 .. Len(controls) - 1 : controls'[i] = controls[i + 1]
        /\ Len(controls) \in Nat \ {0} /\ Head(controls) = controls[1]
    BY <2>1
  <2>3. \A i \in DOMAIN controls' :
           LastAsks(controls', i) => i + 1 \in DOMAIN controls /\ LastAsks(controls, i + 1)
    <3> SUFFICES ASSUME NEW i \in DOMAIN controls', LastAsks(controls', i)
                 PROVE  i + 1 \in DOMAIN controls /\ LastAsks(controls, i + 1)
      OBVIOUS
    <3>1. ASSUME NEW j \in DOMAIN controls, j > i + 1 PROVE controls[j] = "ping"
      <4>1. j - 1 \in DOMAIN controls' /\ j - 1 > i /\ controls'[j - 1] = controls[j]
        BY <2>2, <3>1
      <4> QED BY <4>1 DEF LastAsks
    <3> QED BY <2>2, <3>1 DEF LastAsks
  <2>4. AllPings(controls') => \A j \in DOMAIN controls : j > 1 => controls[j] = "ping"
    <3> SUFFICES ASSUME AllPings(controls'), NEW j \in DOMAIN controls, j > 1
                 PROVE  controls[j] = "ping"
      OBVIOUS
    <3>1. j - 1 \in DOMAIN controls' /\ controls'[j - 1] = controls[j]
      BY <2>2
    <3> QED BY <3>1 DEF AllPings
  <2>5. 1 \in DOMAIN controls /\ \A j \in DOMAIN controls : j > 1 \/ j = 1
    BY <2>2
  <2>6. AllPings(controls') =>
          IF Head(controls) = "ping" THEN AllPings(controls) ELSE LastAsks(controls, 1)
    BY <2>2, <2>4, <2>5 DEF AllPings, LastAsks
  <2>7. ASSUME "client" \notin over, AllPings(controls') PROVE pressed' <=> paused'
    <3>1. CASE Head(controls) = "ping"
      BY <2>1, <2>6, <2>7, <3>1, Zenon
    <3>2. CASE Head(controls) # "ping"
      <4>1. pressed <=> controls[1] = "pause"
        BY <2>5, <2>6, <2>7, <3>2, Zenon
      <4> QED BY <2>1, <2>2, <3>2, <4>1, Zenon
    <3> QED BY <3>1, <3>2
  <2>8. ASSUME "client" \notin over, NEW i \in DOMAIN controls', LastAsks(controls', i)
        PROVE  pressed' <=> controls'[i] = "pause"
    <3>1. controls'[i] = controls[i + 1]
      BY <2>2, <2>8
    <3>2. pressed <=> controls[i + 1] = "pause"
      BY <2>3, <2>8, Zenon
    <3> QED BY <2>1, <3>1, <3>2, Zenon
  <2> QED
    BY <2>1, <2>7, <2>8, Zenon
<1>4. CASE TogglePause \/ SendPing
  <2> DEFINE n == Len(controls) + 1
  <2>1. PICK m \in {"pause", "resume", "ping"} : controls' = Append(controls, m)
    BY <1>4, Zenon DEF TogglePause, SendPing
  <2>2. /\ DOMAIN controls' = 1 .. n /\ DOMAIN controls = 1 .. n - 1 /\ n \in Nat \ {0}
        /\ controls'[n] = m /\ \A i \in 1 .. n - 1 : controls'[i] = controls[i]
    BY <2>1
  <2> HIDE DEF n
  <2>3. CASE SendPing
    <3>1. m = "ping" /\ UNCHANGED <<over, pressed, paused>>
      <4>1. controls' = Append(controls, "ping")
        BY <2>3, Zenon DEF SendPing
      <4>2. controls'[n] = "ping"
        BY <4>1 DEF n, LTypeOK
      <4>3. UNCHANGED <<over, pressed, paused>>
        BY <2>3, Zenon DEF SendPing
      <4> QED BY <2>2, <4>2, <4>3, Zenon
    <3>2. AllPings(controls') => AllPings(controls)
      BY <2>2 DEF AllPings
    <3>3. \A i \in DOMAIN controls' : LastAsks(controls', i) =>
             i \in DOMAIN controls /\ LastAsks(controls, i) /\ controls'[i] = controls[i]
      BY <2>2, <3>1 DEF LastAsks
    <3> QED BY <3>1, <3>2, <3>3, Zenon
  <2>4. CASE TogglePause
    <3>1. controls' = Append(controls, IF pressed THEN "resume" ELSE "pause")
      BY <2>4, Zenon DEF TogglePause
    <3>2. m = IF pressed THEN "resume" ELSE "pause"
      BY <2>2, <3>1 DEF n
    <3>3. m # "ping" /\ (m = "pause" <=> ~pressed)
      BY <3>2, Zenon
    <3>4. pressed' <=> ~pressed
      BY <2>4, Zenon DEF TogglePause
    <3>5. ~AllPings(controls') /\ \A i \in DOMAIN controls' : LastAsks(controls', i) => i = n
      <4>1. n \in DOMAIN controls' /\ controls'[n] # "ping"
        BY <2>2, <3>3
      <4>2. \A i \in DOMAIN controls' : i = n \/ n > i
        BY <2>2
      <4> QED BY <4>1, <4>2 DEF AllPings, LastAsks
    <3> QED BY <2>2, <3>3, <3>4, <3>5, Zenon
  <2> QED BY <1>4, <2>3, <2>4
<1>5. CASE Aside
  BY <1>5, Zenon DEF Aside
<1> QED
  BY <1>1, <1>2, <1>3, <1>4, <1>5, MostStepsAreAside

(* The button tells the truth whenever nothing is on its way.               *)
THEOREM ButtonIsTrue == Spec => []ButtonTellsTruth
<1>1. Init => LTypeOK /\ Shape /\ Intended
  <2>1. Init => controls = <<>> /\ pressed = FALSE /\ paused = FALSE
    BY DEF Init
  <2>2. DOMAIN <<>> = {}
    OBVIOUS
  <2> QED
    BY <2>1, <2>2, ShapeInit, Zenon DEF Intended
<1>2. LTypeOK /\ Shape /\ Intended /\ [Next]_vars => (LTypeOK /\ Shape /\ Intended)'
  BY ShapeStep, IntendedStep
<1>3. LTypeOK /\ Intended => ButtonTellsTruth
  BY Zenon DEF LTypeOK, Intended, AllPings, ButtonTellsTruth
<1> QED
  BY <1>1, <1>2, <1>3, PTL DEF Spec

(***************************************************************************)
(* The second writer.                                                      *)
(***************************************************************************)
LEMMA CompanyStep ==
  ASSUME LTypeOK, Shape, Company, [Next]_vars
  PROVE  Company'
<1> USE DEF LTypeOK, Company
<1>1. CASE Dial
  BY <1>1 DEF Dial, Goroutines, socket, control
<1>2. CASE Read \/ LineWritten \/ LineFails
  BY <1>2 DEF Read, LineWritten, LineFails, Written, socket, control
<1>3. CASE Panic
  BY <1>3 DEF Panic, control
<1>4. CASE ReadControl
  <2>1. /\ controls # <<>> /\ controls' = Tail(controls) /\ UNCHANGED <<kind, live, clicks, pings>>
        /\ ~Answers(Head(controls)) => UNCHANGED writing
        /\ writing' \subseteq writing \cup {"in"}
        /\ paused' = IF Head(controls) = "ping" THEN paused ELSE Head(controls) = "pause"
    BY <1>4, Zenon DEF ReadControl, Obey, Write, socket
  <2>2. /\ DOMAIN controls' = 1 .. Len(controls) - 1 /\ DOMAIN controls = 1 .. Len(controls)
        /\ \A i \in 1 .. Len(controls) - 1 : controls'[i] = controls[i + 1]
        /\ Len(controls) \in Nat \ {0} /\ Head(controls) = controls[1]
    BY <2>1
  <2>3. IF Head(controls) = "ping" THEN pings > 0 ELSE clicks > 0
    <3>1. 1 \in DOMAIN controls
      BY <2>2
    <3> QED
      BY <2>2, <3>1
  <2>4. paused' => clicks > 0
    BY <2>1, <2>3
  <2>5. "in" \in writing' => pings > 0 \/ (kind = "ssh" /\ clicks > 0)
    BY <2>1, <2>3 DEF Answers
  <2>6. ASSUME NEW i \in DOMAIN controls'
        PROVE  IF controls'[i] = "ping" THEN pings > 0 ELSE clicks > 0
    <3>1. i + 1 \in DOMAIN controls /\ controls'[i] = controls[i + 1]
      BY <2>2
    <3> QED
      BY <3>1
  <2> QED
    BY <2>1, <2>4, <2>5, <2>6
<1>5. CASE TogglePause \/ SendPing
  <2>1. PICK m \in {"pause", "resume", "ping"} :
          /\ controls' = Append(controls, m)
          /\ IF m = "ping" THEN pings' = pings + 1 /\ UNCHANGED clicks
                           ELSE clicks' = clicks + 1 /\ UNCHANGED pings
    <3>1. CASE TogglePause
      BY <3>1 DEF TogglePause
    <3>2. CASE SendPing
      BY <3>2 DEF SendPing
    <3> QED BY <1>5, <3>1, <3>2
  <2>2. /\ UNCHANGED <<kind, live, writing, paused>>
        /\ clicks \in Nat /\ pings \in Nat
    BY <1>5 DEF TogglePause, SendPing, socket, Shape
  <2>3. /\ DOMAIN controls' = 1 .. Len(controls) + 1 /\ DOMAIN controls = 1 .. Len(controls)
        /\ controls'[Len(controls) + 1] = m
        /\ \A i \in 1 .. Len(controls) : controls'[i] = controls[i]
        /\ Len(controls) \in Nat
    BY <2>1
  <2>4. \A i \in DOMAIN controls' : IF controls'[i] = "ping" THEN pings' > 0 ELSE clicks' > 0
    BY <2>1, <2>2, <2>3
  <2> QED
    BY <2>1, <2>2, <2>4
<1>6. CASE Aside
  BY <1>6 DEF Aside
<1> QED
  BY <1>1, <1>2, <1>3, <1>4, <1>5, <1>6, MostStepsAreAside

(* Unless the client has sent a message that is answered, or the command    *)
(* writes to stderr over SSH, there is one writer.                          *)
THEOREM OneWriterOtherwise == Spec => WritersMeet
<1>1. Init => LTypeOK /\ Shape /\ Company
  BY ShapeInit DEF Init, Company
<1>2. LTypeOK /\ Shape /\ Company /\ [Next]_vars => (LTypeOK /\ Shape /\ Company)'
  BY ShapeStep, CompanyStep
<1>3. LTypeOK /\ Shape /\ Company /\ [Next]_vars
        => [clashed' /\ ~clashed
              => \/ pings > 0
                 \/ kind = "ssh" /\ (clicks > 0 \/ "err" \in writing \/ errors > 0)]_vars
  <2> SUFFICES ASSUME LTypeOK, Shape, Company, [Next]_vars, clashed', ~clashed
               PROVE  \/ pings > 0
                      \/ kind = "ssh" /\ (clicks > 0 \/ "err" \in writing \/ errors > 0)
    OBVIOUS
  <2>1. WriteLine \/ WriteError \/ ReadControl
    BY DEF Next, Handler, Out, Err, In, Dial, DialFails, Release, Read, LineWritten, LineFails,
       OutEnds, ErrorWritten, ErrEnds, AnswerWritten, InEnds, TickEnds, WaitEnds, Panic,
       TogglePause, SendPing, OtherStream, RemotePrints, Happens, Written, Frame, socket, vars
  <2>2. CASE WriteLine
    <3>1. "out" \notin writing /\ writing # {}
      BY <2>2, Zenon DEF WriteLine, Write
    <3>2. "err" \in writing \/ "in" \in writing
      BY <3>1 DEF LTypeOK
    <3> QED
      BY <3>2 DEF Company, Shape
  <2>3. CASE WriteError
    BY <2>3 DEF WriteError, Company, LTypeOK
  <2>4. CASE ReadControl
    <3>1. Answers(Head(controls)) /\ controls # <<>>
      BY <2>4, Zenon DEF ReadControl, socket
    <3>2. 1 \in DOMAIN controls /\ Head(controls) = controls[1]
      BY <3>1 DEF LTypeOK
    <3> QED
      BY <3>1, <3>2 DEF Answers, Company
  <2> QED
    BY <2>1, <2>2, <2>3, <2>4
<1> QED
  BY <1>1, <1>2, <1>3, PTL DEF Spec, WritersMeet

(***************************************************************************)
(* The order of the log.                                                   *)
(***************************************************************************)
(* What was sent lies below what is in the reader's hands.                  *)
SentBelow ==
  \A i \in DOMAIN sent :
    /\ sent[i].to <= readTo
    /\ chunk.from <= chunk.to => sent[i].to < chunk.from

LastSent == IF sent = <<>> THEN 0 ELSE sent[Len(sent)].to

(* While nothing was paused and no writers met, nothing lies in between.    *)
Gapless ==
  clicks = 0 /\ ~clashed /\ "out" \in live =>
    IF chunk.from <= chunk.to THEN chunk.from = LastSent + 1 /\ chunk.to = readTo
                              ELSE readTo = LastSent

Order == SentBelow /\ Gapless /\ Company /\ LogInOrder

(* The ends of the pieces are numbers.                                       *)
LEMMA PiecesHaveNumbers ==
  /\ \A q \in Piece : q.from \in Nat /\ q.to \in Nat
  /\ LTypeOK => \A i \in DOMAIN sent : sent[i].from \in Nat /\ sent[i].to \in Nat
<1>1. \A q \in Piece : q.from \in Nat /\ q.to \in Nat
  BY NumbersAreNat DEF Piece
<1>2. LTypeOK => \A i \in DOMAIN sent : sent[i] \in Piece
  BY DEF LTypeOK
<1> QED
  BY <1>1, <1>2

(* The step that sends a piece: the facts of it.                            *)
LEMMA SendingFacts ==
  ASSUME LTypeOK, Shape, LineWritten
  PROVE  /\ chunk.from \in Nat \ {0} /\ chunk.to \in Nat /\ chunk.from <= chunk.to
         /\ NextPiece \in Piece /\ NextPiece.from = chunk.from
         /\ NextPiece.to \in Nat /\ chunk.from <= NextPiece.to /\ NextPiece.to <= chunk.to
         /\ chunk'.from = NextPiece.to + 1 /\ chunk'.to = chunk.to
         /\ UNCHANGED <<readTo, live, clicks, clashed>>
         /\ sent' = Append(sent, NextPiece) \/ (clashed /\ UNCHANGED sent)
<1>1. /\ chunk.from <= chunk.to
      /\ chunk.from \in Nat \ {0} /\ chunk.to \in Nat
  BY DEF LineWritten, Written, Shape
<1>2. /\ NextPiece \in Piece /\ NextPiece.from = chunk.from
      /\ NextPiece.to \in chunk.from .. chunk.to
  BY <1>1, NextPieceInChunk
<1>3. chunk'.from = NextPiece.to + 1 /\ chunk'.to = chunk.to
  BY DEF LineWritten, Shape
<1>4. UNCHANGED <<readTo, live, clicks, clashed>>
  BY Zenon DEF LineWritten, Written, control
<1>5. sent' = Append(sent, NextPiece) \/ (clashed /\ UNCHANGED sent)
  BY DEF LineWritten
<1> QED
  BY <1>1, <1>2, <1>3, <1>4, <1>5

(* Appending the next piece, and what was there before.                     *)
LEMMA AppendedFacts ==
  ASSUME LTypeOK, NEW p \in Piece, sent' = Append(sent, p)
  PROVE  /\ DOMAIN sent' = 1 .. Len(sent) + 1 /\ DOMAIN sent = 1 .. Len(sent)
         /\ Len(sent) \in Nat /\ Len(sent') = Len(sent) + 1 /\ sent' # <<>>
         /\ sent'[Len(sent) + 1] = p
         /\ \A i \in DOMAIN sent : sent'[i] = sent[i]
         /\ \A i \in DOMAIN sent' : sent'[i].to \in Nat /\ sent'[i].from \in Nat
<1>1. sent \in Seq(Piece) /\ sent' \in Seq(Piece)
  BY DEF LTypeOK
<1>2. \A i \in DOMAIN sent' : sent'[i] \in Piece
  BY <1>1
<1> QED
  BY <1>1, <1>2, PiecesHaveNumbers

(* What was sent lies below what the reader holds, after every step.         *)
LEMMA SentBelowStep ==
  ASSUME LTypeOK, Shape, SentBelow, [Next]_vars
  PROVE  SentBelow'
<1>0. \A i \in DOMAIN sent : sent[i].to \in Nat
  BY PiecesHaveNumbers
<1>1. CASE Dial \/ ReadControl \/ TogglePause \/ SendPing \/ Aside
  <2>1. UNCHANGED <<readTo, chunk, sent>>
    BY <1>1 DEF Dial, ReadControl, TogglePause, SendPing, Aside, output
  <2> QED
    BY <2>1, Zenon DEF SentBelow
<1>2. CASE Read
  <2>1. PICK n \in readTo + 1 .. printed :
          readTo' = n /\ chunk' = IF paused THEN chunk ELSE [from |-> readTo + 1, to |-> n]
    BY <1>2 DEF Read
  <2>2. chunk.from > chunk.to /\ UNCHANGED sent
    BY <1>2 DEF Read, Idle
  <2>3. readTo \in Nat /\ readTo' > readTo /\ readTo' \in Nat
    BY <2>1, NumbersAreNat DEF LTypeOK
  <2>4. chunk'.from <= chunk'.to => chunk'.from = readTo + 1
    BY <2>1, <2>2 DEF Shape
  <2> QED
    BY <1>0, <2>2, <2>3, <2>4 DEF SentBelow
<1>3. CASE LineWritten
  <2>1. CASE UNCHANGED sent
    BY <1>0, <1>3, <2>1, SendingFacts DEF SentBelow
  <2>2. CASE sent' = Append(sent, NextPiece)
    <3>1. NextPiece.to <= readTo /\ readTo \in Nat /\ UNCHANGED readTo
      BY <1>3, SendingFacts, NumbersAreNat DEF Shape, LTypeOK
    <3>2. \A i \in DOMAIN sent : sent[i].to <= readTo /\ sent[i].to < chunk.from
      BY <1>3, SendingFacts DEF SentBelow
    <3>3. ASSUME NEW i \in DOMAIN sent'
          PROVE  sent'[i].to <= readTo /\ sent'[i].to < NextPiece.to + 1
      <4>1. i \in DOMAIN sent \/ i = Len(sent) + 1
        BY <1>3, <2>2, SendingFacts, AppendedFacts
      <4>2. CASE i = Len(sent) + 1
        <5>1. sent'[i] = NextPiece
          BY <1>3, <2>2, <4>2, SendingFacts, AppendedFacts
        <5> QED
          BY <1>3, <3>1, <5>1, SendingFacts
      <4>3. CASE i \in DOMAIN sent
        <5>1. sent'[i] = sent[i]
          BY <1>3, <2>2, <4>3, SendingFacts, AppendedFacts
        <5>2. chunk.from <= NextPiece.to /\ chunk.from \in Nat /\ NextPiece.to \in Nat
          BY <1>3, SendingFacts
        <5> QED
          BY <1>0, <3>2, <4>3, <5>1, <5>2
      <4> QED
        BY <4>1, <4>2, <4>3
    <3> QED
      BY <1>3, <3>1, <3>3, SendingFacts DEF SentBelow
  <2> QED
    BY <1>3, <2>1, <2>2, SendingFacts
<1>4. CASE LineFails \/ Panic
  <2>1. chunk' = NoChunk /\ UNCHANGED <<readTo, sent>>
    BY <1>4 DEF LineFails, Panic
  <2>2. ~(chunk'.from <= chunk'.to)
    BY <2>1 DEF NoChunk
  <2> QED
    BY <2>1, <2>2 DEF SentBelow
<1> QED
  BY <1>1, <1>2, <1>3, <1>4, MostStepsAreAside

(* Without a pause and a second writer the reader goes on where the last     *)
(* message ended.                                                            *)
LEMMA GaplessStep ==
  ASSUME LTypeOK, Shape, Gapless, Company, [Next]_vars
  PROVE  Gapless'
<1>0. LastSent \in Nat /\ readTo \in Nat
  <2>1. sent # <<>> => Len(sent) \in DOMAIN sent
    BY DEF LTypeOK
  <2> QED
    BY <2>1, PiecesHaveNumbers, NumbersAreNat DEF LTypeOK, LastSent
<1>1. CASE Dial
  <2>1. readTo' = 0 /\ sent' = <<>> /\ chunk' = NoChunk
    BY <1>1 DEF Dial, output, Shape
  <2> QED
    BY <2>1 DEF Gapless, LastSent, NoChunk
<1>2. CASE ReadControl \/ SendPing \/ Aside
  <2>1. UNCHANGED <<readTo, chunk, sent, clicks>> /\ live' \subseteq live /\ (clashed => clashed')
    <3>1. CASE ReadControl
      BY <3>1, Zenon DEF ReadControl, output, Write, socket
    <3>2. CASE SendPing
      BY <3>2, Zenon DEF SendPing, output, socket
    <3>3. CASE Aside
      BY <3>3, Zenon DEF Aside
    <3> QED
      BY <1>2, <3>1, <3>2, <3>3
  <2>2. LastSent' = LastSent
    BY <2>1 DEF LastSent
  <2> QED
    BY <2>1, <2>2 DEF Gapless
<1>3. CASE TogglePause
  <2>1. clicks' # 0
    BY <1>3 DEF TogglePause, Shape
  <2> QED
    BY <2>1 DEF Gapless
<1>4. CASE Read
  <2>1. PICK n \in readTo + 1 .. printed :
          readTo' = n /\ chunk' = IF paused THEN chunk ELSE [from |-> readTo + 1, to |-> n]
    BY <1>4 DEF Read
  <2>2. chunk.from > chunk.to /\ UNCHANGED <<sent, live, clicks, clashed>>
    BY <1>4 DEF Read, Idle, socket, control
  <2>3. LastSent' = LastSent
    BY <2>2 DEF LastSent
  <2>4. clicks = 0 => ~paused
    BY DEF Company
  <2>5. SUFFICES ASSUME clicks' = 0, ~clashed', "out" \in live'
                 PROVE  chunk'.from = LastSent' + 1 /\ chunk'.to = readTo' /\ chunk'.from <= chunk'.to
    BY DEF Gapless
  <2>6. readTo = LastSent
    BY <1>0, <2>2, <2>5 DEF Gapless, Shape
  <2>7. chunk' = [from |-> readTo + 1, to |-> n]
    BY <2>1, <2>2, <2>4, <2>5
  <2>8. n >= readTo + 1
    BY <1>0, <2>1, NumbersAreNat DEF LTypeOK
  <2> QED
    BY <1>0, <2>1, <2>3, <2>6, <2>7, <2>8
<1>5. CASE LineWritten
  <2> SUFFICES ASSUME clicks' = 0, ~clashed', "out" \in live'
               PROVE  IF chunk'.from <= chunk'.to
                      THEN chunk'.from = LastSent' + 1 /\ chunk'.to = readTo'
                      ELSE readTo' = LastSent'
    BY DEF Gapless
  <2>1. sent' = Append(sent, NextPiece) /\ NextPiece \in Piece
    BY <1>5, SendingFacts
  <2>2. chunk.to = readTo
    BY <1>5, SendingFacts DEF Gapless
  <2>3. LastSent' = NextPiece.to
    BY <2>1, AppendedFacts DEF LastSent
  <2> QED
    BY <1>0, <1>5, <2>2, <2>3, SendingFacts
<1>6. CASE LineFails
  <2>1. "out" \notin live'
    BY <1>6 DEF LineFails
  <2> QED
    BY <2>1 DEF Gapless
<1>7. CASE Panic
  BY <1>7 DEF Panic, Gapless
<1> QED
  BY <1>1, <1>2, <1>3, <1>4, <1>5, <1>6, <1>7, MostStepsAreAside

(* A message that is written continues the order of those before it.         *)
LEMMA LogInOrderStep ==
  ASSUME LTypeOK, Shape, SentBelow, Gapless, LogInOrder, [Next]_vars
  PROVE  LogInOrder'
<1>1. CASE LineWritten /\ sent' = Append(sent, NextPiece)
  <2>1. /\ DOMAIN sent' = 1 .. Len(sent) + 1 /\ DOMAIN sent = 1 .. Len(sent)
        /\ Len(sent) \in Nat /\ sent'[Len(sent) + 1] = NextPiece
        /\ \A i \in DOMAIN sent : sent'[i] = sent[i]
    BY <1>1, SendingFacts, AppendedFacts
  <2>2. UNCHANGED <<clicks, clashed>>
    BY <1>1, SendingFacts
  <2>3. ASSUME NEW i \in 1 .. Len(sent)
        PROVE  /\ sent'[i].from <= sent'[i].to
               /\ i > 1 => sent'[i - 1].to < sent'[i].from
               /\ clicks = 0 /\ ~clashed
                    => sent'[i].from = (IF i = 1 THEN 1 ELSE sent'[i - 1].to + 1)
    <3>1. i > 1 => i - 1 \in 1 .. Len(sent)
      BY <2>1
    <3> QED
      BY <2>1, <3>1 DEF LogInOrder
  <2>4. /\ NextPiece.from <= NextPiece.to
        /\ Len(sent) + 1 > 1 => sent'[Len(sent)].to < NextPiece.from
    <3>1. /\ NextPiece.from = chunk.from /\ chunk.from <= NextPiece.to /\ chunk.from <= chunk.to
          /\ NextPiece.to \in Nat
      BY <1>1, SendingFacts
    <3>2. Len(sent) > 0 => sent[Len(sent)].to < chunk.from
      BY <2>1, <3>1 DEF SentBelow
    <3>3. Len(sent) > 0 => sent'[Len(sent)] = sent[Len(sent)]
      BY <2>1
    <3> QED
      BY <2>1, <3>1, <3>2, <3>3
  <2>5. clicks = 0 /\ ~clashed
          => NextPiece.from = (IF Len(sent) + 1 = 1 THEN 1 ELSE sent'[Len(sent)].to + 1)
    <3>1. "out" \in live
      BY <1>1 DEF LineWritten, Written, Shape
    <3>2. clicks = 0 /\ ~clashed => NextPiece.from = LastSent + 1
      BY <1>1, <3>1, SendingFacts DEF Gapless
    <3>3. LastSent = IF Len(sent) = 0 THEN 0 ELSE sent'[Len(sent)].to
      BY <2>1 DEF LastSent, LTypeOK
    <3> QED
      BY <2>1, <3>2, <3>3
  <2> QED
    <3>1. \A i \in DOMAIN sent' : i \in 1 .. Len(sent) \/ i = Len(sent) + 1
      BY <2>1
    <3>2. Len(sent) + 1 - 1 = Len(sent)
      BY <2>1
    <3> QED
      BY <2>1, <2>2, <2>3, <2>4, <2>5, <3>1, <3>2 DEF LogInOrder
<1>2. CASE UNCHANGED sent
  <2>1. (clicks' = 0 => clicks = 0) /\ (clashed => clashed')
    <3>1. clicks' = 0 => clicks = 0
      <4>1. clicks' = clicks \/ clicks' = clicks + 1
        BY MostStepsAreAside
           DEF Dial, Read, LineWritten, LineFails, Panic, ReadControl, TogglePause, SendPing, Aside, control
      <4> QED
        BY <4>1 DEF Shape
    <3>2. clashed => clashed'
      BY MostStepsAreAside, Zenon
         DEF Dial, Read, LineWritten, LineFails, Panic, ReadControl, TogglePause, SendPing, Aside, Written,
             Write, socket
    <3> QED
      BY <3>1, <3>2
  <2> QED
    BY <1>2, <2>1 DEF LogInOrder
<1>3. (LineWritten /\ sent' = Append(sent, NextPiece)) \/ UNCHANGED sent
  BY MostStepsAreAside
     DEF Dial, Read, LineWritten, LineFails, Panic, ReadControl, TogglePause, SendPing, Aside, output
<1> QED
  BY <1>1, <1>2, <1>3

(* The log arrives in order, for output of any length and chunks of any size.*)
THEOREM LogArrivesInOrder == Spec => []LogInOrder
<1>1. Init => LTypeOK /\ Shape /\ Order
  BY ShapeInit DEF Init, Order, SentBelow, Gapless, Company, LogInOrder
<1>2. LTypeOK /\ Shape /\ Order /\ [Next]_vars => (LTypeOK /\ Shape /\ Order)'
  BY ShapeStep, SentBelowStep, GaplessStep, CompanyStep, LogInOrderStep DEF Order
<1>3. Order => LogInOrder
  BY DEF Order
<1> QED
  BY <1>1, <1>2, <1>3, PTL DEF Spec

(***************************************************************************)
(* The end of a stream.                                                    *)
(***************************************************************************)
LEMMA CanEndStep ==
  ASSUME LTypeOK, Shape, Shape', StreamCanEnd, [Next]_vars
  PROVE  StreamCanEnd'
<1>w. writing' \subseteq live'
  BY DEF Shape
<1> USE <1>w DEF StreamCanEnd
<1>1. CASE Dial
  BY <1>1 DEF Dial, Goroutines, LTypeOK
<1>2. CASE DialFails
  BY <1>2 DEF DialFails, Shape
<1>3. CASE Release
  BY <1>3 DEF Release
<1>4. CASE OutEnds \/ InEnds \/ TickEnds \/ WaitEnds
  BY <1>4 DEF OutEnds, InEnds, TickEnds, WaitEnds, Quit, Frame
<1>5. CASE ErrEnds
  BY <1>5 DEF ErrEnds, Quit, Frame
<1>6. CASE LineFails
  BY <1>6 DEF LineFails
<1>7. CASE Panic
  BY <1>7 DEF Panic
<1>8. CASE UNCHANGED <<kind, stream, live, stopped>> /\ (stream = "closed" => UNCHANGED over)
  BY <1>8
<1>9. \/ Dial \/ DialFails \/ Release \/ OutEnds \/ InEnds \/ TickEnds \/ WaitEnds \/ ErrEnds
      \/ LineFails \/ Panic
      \/ UNCHANGED <<kind, stream, live, stopped>> /\ (stream = "closed" => UNCHANGED over)
  BY DEF Next, Handler, Out, Err, In, Read, WriteLine, LineWritten, WriteError, ErrorWritten,
         ReadControl, AnswerWritten, TogglePause, SendPing, OtherStream, RemotePrints, Happens, vars
<1> QED
  BY <1>1, <1>2, <1>3, <1>4, <1>5, <1>6, <1>7, <1>8, <1>9

(* While a stream is open somebody is there who notices its end and closes   *)
(* stopCh, and whoever outlives the handler finds everything closed.         *)
THEOREM StreamsCanEnd == Spec => []StreamCanEnd
<1>1. Init => LTypeOK /\ Shape /\ StreamCanEnd
  BY ShapeInit DEF Init, StreamCanEnd
<1>2. LTypeOK /\ Shape /\ StreamCanEnd /\ [Next]_vars => (LTypeOK /\ Shape /\ StreamCanEnd)'
  BY ShapeStep, CanEndStep
<1> QED
  BY <1>1, <1>2, PTL DEF Spec
=============================================================================
