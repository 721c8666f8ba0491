------------------------ MODULE HardwareUpdateProofs ------------------------
(***************************************************************************)
(* Proof that the consumer of the sample ipc_hardware_update shows whole   *)
(* pictures only, whenever main takes the display away from under it: what *)
(* a handle that is still current leads to is the display it led to, with  *)
(* what the consumer has drawn on it.                                      *)
(***************************************************************************)
EXTENDS HardwareUpdate, IpcRegistryProofs, SequenceTheorems

-----------------------------------------------------------------------------
(***************************************************************************)
(* Pictures.                                                               *)
(***************************************************************************)
LEMMA PictureOfFour ==
  ASSUME NEW d, NEW calls, Len(calls) = 4
  PROVE  Picture(d, calls) =
           display_1(d, display_1(d, display_1(d, display_1(d, Filled(d, Zero),
             calls[1]), calls[2]), calls[3]), calls[4])
<1> DEFINE Draws(m) == m = [n \in 0..Len(calls) |->
                              IF n = 0 THEN Filled(d, Zero) ELSE display_1(d, m[n - 1], calls[n])]
           lines == CHOOSE m : Draws(m)
           m1 == display_1(d, Filled(d, Zero), calls[1])
           m2 == display_1(d, m1, calls[2])
           m3 == display_1(d, m2, calls[3])
           m4 == display_1(d, m3, calls[4])
           g == [n \in 0..4 |-> CASE n = 0 -> Filled(d, Zero) [] n = 1 -> m1 [] n = 2 -> m2
                                  [] n = 3 -> m3 [] OTHER -> m4]
<1>1. Draws(g)
  <2>1. g[0] = Filled(d, Zero) /\ g[1] = m1 /\ g[2] = m2 /\ g[3] = m3 /\ g[4] = m4
    OBVIOUS
  <2>2. \A n \in 0..4 : g[n] = IF n = 0 THEN Filled(d, Zero) ELSE display_1(d, g[n - 1], calls[n])
    BY <2>1
  <2> QED BY <2>2
<1>2. Draws(lines)
  BY <1>1
<1> HIDE DEF lines
<1>3. /\ lines[0] = Filled(d, Zero)
      /\ lines[1] = display_1(d, lines[0], calls[1]) /\ lines[2] = display_1(d, lines[1], calls[2])
      /\ lines[3] = display_1(d, lines[2], calls[3]) /\ lines[4] = display_1(d, lines[3], calls[4])
  BY <1>2
<1> QED BY <1>3 DEF lines, Picture

LEMMA PictureOfFive ==
  ASSUME NEW d, NEW calls, Len(calls) = 5
  PROVE  Picture(d, calls) =
           display_1(d, display_1(d, display_1(d, display_1(d, display_1(d, Filled(d, Zero),
             calls[1]), calls[2]), calls[3]), calls[4]), calls[5])
<1> DEFINE Draws(m) == m = [n \in 0..Len(calls) |->
                              IF n = 0 THEN Filled(d, Zero) ELSE display_1(d, m[n - 1], calls[n])]
           lines == CHOOSE m : Draws(m)
           m1 == display_1(d, Filled(d, Zero), calls[1])
           m2 == display_1(d, m1, calls[2])
           m3 == display_1(d, m2, calls[3])
           m4 == display_1(d, m3, calls[4])
           m5 == display_1(d, m4, calls[5])
           g == [n \in 0..5 |-> CASE n = 0 -> Filled(d, Zero) [] n = 1 -> m1 [] n = 2 -> m2
                                  [] n = 3 -> m3 [] n = 4 -> m4 [] OTHER -> m5]
<1>1. Draws(g)
  <2>1. g[0] = Filled(d, Zero) /\ g[1] = m1 /\ g[2] = m2 /\ g[3] = m3 /\ g[4] = m4 /\ g[5] = m5
    OBVIOUS
  <2>2. \A n \in 0..5 : g[n] = IF n = 0 THEN Filled(d, Zero) ELSE display_1(d, g[n - 1], calls[n])
    BY <2>1
  <2> QED BY <2>2
<1>2. Draws(lines)
  BY <1>1
<1> HIDE DEF lines
<1>3. /\ lines[0] = Filled(d, Zero)
      /\ lines[1] = display_1(d, lines[0], calls[1]) /\ lines[2] = display_1(d, lines[1], calls[2])
      /\ lines[3] = display_1(d, lines[2], calls[3]) /\ lines[4] = display_1(d, lines[3], calls[4])
      /\ lines[5] = display_1(d, lines[4], calls[5])
  BY <1>2
<1> QED BY <1>3 DEF lines, Picture

\* cls forgets what was there.
LEMMA Clears ==
  ASSUME NEW d, NEW lines
  PROVE  display_1(d, lines, Command("cls")) = Filled(d, Blank)
BY DEF display_1, Command

\* What the calls that are left make of what is there.
Finish(d, lines, calls) ==
  CASE Len(calls) = 0 -> lines
    [] Len(calls) = 1 -> display_1(d, lines, calls[1])
    [] Len(calls) = 2 -> display_1(d, display_1(d, lines, calls[1]), calls[2])
    [] Len(calls) = 3 -> display_1(d, display_1(d, display_1(d, lines,
                           calls[1]), calls[2]), calls[3])
    [] OTHER -> display_1(d, display_1(d, display_1(d, display_1(d, lines,
                  calls[1]), calls[2]), calls[3]), calls[4])

LEMMA FinishIs ==
  ASSUME NEW d, NEW lines, NEW calls
  PROVE  /\ Len(calls) = 0 => Finish(d, lines, calls) = lines
         /\ Len(calls) = 1 => Finish(d, lines, calls) = display_1(d, lines, calls[1])
         /\ Len(calls) = 2 =>
              Finish(d, lines, calls) = display_1(d, display_1(d, lines, calls[1]), calls[2])
         /\ Len(calls) = 3 =>
              Finish(d, lines, calls) = display_1(d, display_1(d, display_1(d, lines,
                                          calls[1]), calls[2]), calls[3])
         /\ Len(calls) = 4 =>
              Finish(d, lines, calls) = display_1(d, display_1(d, display_1(d, display_1(d, lines,
                                          calls[1]), calls[2]), calls[3]), calls[4])
<1>1. Len(calls) = 0 => Finish(d, lines, calls) = lines
  BY DEF Finish
<1>2. Len(calls) = 1 => Finish(d, lines, calls) = display_1(d, lines, calls[1])
  BY DEF Finish
<1>3. Len(calls) = 2 =>
        Finish(d, lines, calls) = display_1(d, display_1(d, lines, calls[1]), calls[2])
  BY DEF Finish
<1>4. Len(calls) = 3 =>
        Finish(d, lines, calls) = display_1(d, display_1(d, display_1(d, lines,
                                    calls[1]), calls[2]), calls[3])
  BY DEF Finish
<1>5. Len(calls) = 4 =>
        Finish(d, lines, calls) = display_1(d, display_1(d, display_1(d, display_1(d, lines,
                                    calls[1]), calls[2]), calls[3]), calls[4])
  BY DEF Finish
<1> QED BY <1>1, <1>2, <1>3, <1>4, <1>5

LEMMA FinishGoesOn ==
  ASSUME NEW T, NEW calls \in Seq(T), calls # << >>, Len(calls) <= 4, NEW d, NEW lines
  PROVE  /\ Finish(d, display_1(d, lines, Head(calls)), Tail(calls)) = Finish(d, lines, calls)
         /\ Tail(calls) \in Seq(T) /\ Len(Tail(calls)) <= 4
<1> DEFINE rest == Tail(calls)
           first == display_1(d, lines, calls[1])
<1>1. rest \in Seq(T) /\ Len(rest) = Len(calls) - 1 /\ Head(calls) = calls[1]
      /\ \A k \in 1 .. Len(rest) : rest[k] = calls[k + 1]
  BY HeadTailProperties
<1>2. Len(calls) \in 1..4
  <2>1. Len(calls) \in Nat
    OBVIOUS
  <2>2. Len(calls) # 0 /\ Len(calls) <= 4
    BY EmptySeq
  <2>3. \A n \in Nat : n # 0 /\ n <= 4 => n \in 1..4
    OBVIOUS
  <2> QED BY <2>1, <2>2, <2>3
<1> HIDE DEF rest
<1>3. ASSUME Len(calls) = 1 PROVE Finish(d, first, rest) = Finish(d, lines, calls)
  <2>1. Len(rest) = 0
    BY <1>1, <1>3
  <2> QED BY <1>3, <2>1, FinishIs
<1>4. ASSUME Len(calls) = 2 PROVE Finish(d, first, rest) = Finish(d, lines, calls)
  <2>1. Len(rest) = 1 /\ rest[1] = calls[2]
    BY <1>1, <1>4
  <2> QED BY <1>4, <2>1, FinishIs
<1>5. ASSUME Len(calls) = 3 PROVE Finish(d, first, rest) = Finish(d, lines, calls)
  <2>1. Len(rest) = 2 /\ rest[1] = calls[2] /\ rest[2] = calls[3]
    BY <1>1, <1>5
  <2> QED BY <1>5, <2>1, FinishIs
<1>6. ASSUME Len(calls) = 4 PROVE Finish(d, first, rest) = Finish(d, lines, calls)
  <2>1. Len(rest) = 3 /\ rest[1] = calls[2] /\ rest[2] = calls[3] /\ rest[3] = calls[4]
    BY <1>1, <1>6
  <2> QED BY <1>6, <2>1, FinishIs
<1>7. Finish(d, first, rest) = Finish(d, lines, calls)
  BY <1>2, <1>3, <1>4, <1>5, <1>6
<1>8. Len(rest) <= 4
  BY <1>1, <1>2
<1> QED BY <1>1, <1>7, <1>8 DEF rest

\* The picture a frame ends with.
Target(d, s) ==
  CASE s = 0 -> Picture(d, Welcome(MAX_X[d]))
    [] s = 2 -> Picture(d, Append(Bunny, EarsDown))
    [] OTHER -> Picture(d, Bunny)

\* The picture a frame that only moves the ears needs.
Ready(d, s, lines) ==
  /\ s = 2 => lines = Picture(d, Bunny)
  /\ s = 3 => lines = Picture(d, Append(Bunny, EarsDown))

LEMMA TargetsArePictures ==
  ASSUME NEW d, NEW s
  PROVE  Target(d, s) \in Pictures(d)
BY DEF Target, Pictures

LEMMA TargetIsReady ==
  ASSUME NEW d, NEW s \in 0..3
  PROVE  NextFrame[s] \in 1..3 /\ Ready(d, NextFrame[s], Target(d, s))
<1>1. /\ NextFrame[0] = 1 /\ NextFrame[1] = 2 /\ NextFrame[2] = 3 /\ NextFrame[3] = 2
  BY DEF NextFrame
<1>2. s = 0 \/ s = 1 \/ s = 2 \/ s = 3
  OBVIOUS
<1> QED BY <1>1, <1>2 DEF Ready, Target

\* A frame that begins with cls ends with its picture, whatever was there.
LEMMA ClearedFrame ==
  ASSUME NEW d, NEW lines, NEW calls, Len(calls) = 4, calls[1] = Command("cls")
  PROVE  Finish(d, lines, calls) = Picture(d, calls)
<1>1. display_1(d, lines, calls[1]) = display_1(d, Filled(d, Zero), calls[1])
  BY Clears
<1> QED BY <1>1, PictureOfFour, FinishIs

LEMMA BunnyLength == Len(Bunny) = 4
BY DEF Bunny

LEMMA BunnyIs ==
  /\ Len(Bunny) = 4 /\ Bunny[1] = Command("cls") /\ Bunny[2] = EarsUp
  /\ Bunny[3] = print_single_line(5, 2, <<"( -.-)">>, 6)
  /\ Bunny[4] = print_single_line(5, 3, <<"o_(\")(\")">>, 8)
BY DEF Bunny

LEMMA EarsGoDown ==
  ASSUME NEW d
  PROVE  Picture(d, Append(Bunny, EarsDown)) = display_1(d, Picture(d, Bunny), EarsDown)
<1> DEFINE calls == Append(Bunny, EarsDown)
<1>1. /\ Len(calls) = 5 /\ calls[1] = Bunny[1] /\ calls[2] = Bunny[2] /\ calls[3] = Bunny[3]
      /\ calls[4] = Bunny[4] /\ calls[5] = EarsDown
  BY DEF Bunny
<1> HIDE DEF calls
<1>2. Picture(d, calls) = display_1(d, display_1(d, display_1(d, display_1(d, display_1(d,
        Filled(d, Zero), calls[1]), calls[2]), calls[3]), calls[4]), calls[5])
  BY <1>1, PictureOfFive
<1>3. Picture(d, Bunny) = display_1(d, display_1(d, display_1(d, display_1(d,
        Filled(d, Zero), Bunny[1]), Bunny[2]), Bunny[3]), Bunny[4])
  BY BunnyIs, PictureOfFour
<1> QED BY <1>1, <1>2, <1>3 DEF calls

\* A text inside a display replaces a part of a line.
Replaced(line, x, text, size) ==
  [k \in DOMAIN line |-> IF k \in x .. x + size - 1 THEN <<text, k - x>> ELSE line[k]]

LEMMA PrintReplaces ==
  ASSUME NEW d, NEW lines, NEW x \in Nat, NEW y \in DOMAIN lines, NEW text, NEW size \in Nat
  PROVE  display_1(d, lines, print_single_line(x, y, text, size))
           = [lines EXCEPT ![y] = Replaced(lines[y], x, text, size)]
<1> DEFINE in == print_single_line(x, y, text, size)
<1>1. in.command = "print" /\ in.x = x /\ in.y = y /\ in.text = text /\ in.size = size
  BY DEF print_single_line
<1> HIDE DEF in
<1>2. display_1(d, lines, in) = display_1_print(d, lines, in)
  BY <1>1 DEF display_1
<1>3. ~(in.x < 0) /\ 0 <= in.size /\ in.x + 0 = x
  BY <1>1
<1>4. display_1_print(d, lines, in) = [lines EXCEPT ![y] =
        [k \in DOMAIN @ |-> IF k \in x .. x + size - 1 THEN <<text, k - x>> ELSE @[k]]]
  BY <1>1, <1>3 DEF display_1_print
<1> QED BY <1>2, <1>4 DEF Replaced, in

\* The ears up again are as if they had never been down.
LEMMA EarsGoUp ==
  ASSUME NEW d \in Displays
  PROVE  display_1(d, Picture(d, Append(Bunny, EarsDown)), EarsUp) = Picture(d, Bunny)
<1> DEFINE up == <<"(\\(\\">>
           down == <<"/)/)">>
           face == <<"( -.-)">>
           feet == <<"o_(\")(\")">>
           b1 == Filled(d, Blank)
           b2 == [b1 EXCEPT ![1] = Replaced(b1[1], 6, up, 4)]
           b3 == [b2 EXCEPT ![2] = Replaced(b2[2], 5, face, 6)]
           b4 == [b3 EXCEPT ![3] = Replaced(b3[3], 5, feet, 8)]
           b5 == [b4 EXCEPT ![1] = Replaced(b4[1], 6, down, 4)]
           b6 == [b5 EXCEPT ![1] = Replaced(b5[1], 6, up, 4)]
<1>1. DOMAIN b1 = 0..3
  BY DEF Filled, MAX_Y
<1> HIDE DEF b1, up, down, face, feet
<1>2. /\ DOMAIN b2 = 0..3 /\ DOMAIN b3 = 0..3 /\ DOMAIN b4 = 0..3 /\ DOMAIN b5 = 0..3
  BY <1>1
<1>3. b4[1] = Replaced(b1[1], 6, up, 4)
  <2>1. b2[1] = Replaced(b1[1], 6, up, 4)
    BY <1>1
  <2> HIDE DEF b2
  <2>2. b3[1] = b2[1]
    BY <1>2
  <2> HIDE DEF b3
  <2>3. b4[1] = b3[1]
    BY <1>2
  <2> QED BY <2>1, <2>2, <2>3
<1>4. \A line : Replaced(Replaced(Replaced(line, 6, up, 4), 6, down, 4), 6, up, 4) = Replaced(line, 6, up, 4)
  BY DEF Replaced
<1>5. b6 = b4
  <2> HIDE DEF b4
  <2>1. b4 = [y \in 0..3 |-> b4[y]]
    <3> HIDE DEF b3
    <3> QED BY <1>2 DEF b4
  <2>2. \A y \in 0..3 : b6[y] = b4[y]
    BY <1>2, <1>3, <1>4
  <2>3. b6 = [y \in 0..3 |-> b6[y]]
    <3> HIDE DEF b5
    <3> QED BY <1>2
  <2> HIDE DEF b6
  <2> QED BY <2>1, <2>2, <2>3
<1>6. Picture(d, Bunny) = b4
  <2>1. display_1(d, Filled(d, Zero), Bunny[1]) = b1
    BY BunnyIs, Clears DEF b1
  <2>2. display_1(d, b1, print_single_line(6, 1, up, 4)) = b2
    BY <1>1, PrintReplaces
  <2> HIDE DEF b2
  <2>3. display_1(d, b2, print_single_line(5, 2, face, 6)) = b3
    BY <1>2, PrintReplaces
  <2> HIDE DEF b3
  <2>4. display_1(d, b3, print_single_line(5, 3, feet, 8)) = b4
    BY <1>2, PrintReplaces
  <2> HIDE DEF b4
  <2>5. display_1(d, b1, Bunny[2]) = b2 /\ display_1(d, b2, Bunny[3]) = b3 /\ display_1(d, b3, Bunny[4]) = b4
    BY <2>2, <2>3, <2>4, BunnyIs DEF EarsUp, up, face, feet
  <2> QED BY <2>1, <2>5, BunnyIs, PictureOfFour
<1> HIDE DEF b4
<1>7. display_1(d, b4, EarsDown) = b5
  <2>1. display_1(d, b4, print_single_line(6, 1, down, 4)) = b5
    BY <1>2, PrintReplaces
  <2> QED BY <2>1 DEF EarsDown, down
<1> HIDE DEF b5
<1>8. display_1(d, b5, EarsUp) = b6
  <2>1. display_1(d, b5, print_single_line(6, 1, up, 4)) = b6
    BY <1>2, PrintReplaces
  <2> QED BY <2>1 DEF EarsUp, up
<1> HIDE DEF b6
<1> QED BY <1>5, <1>6, <1>7, <1>8, EarsGoDown

\* The calls there are.
Strokes ==
  {Welcome(20)[k] : k \in 1..4} \cup {Welcome(48)[k] : k \in 1..4}
    \cup {Bunny[k] : k \in 1..4} \cup {EarsUp, EarsDown}

LEMMA ShortSequences ==
  ASSUME NEW T, NEW a \in T, NEW b \in T, NEW c \in T, NEW e \in T
  PROVE  <<a>> \in Seq(T) /\ <<a, b, c, e>> \in Seq(T)
OBVIOUS

\* A frame that begins on a display that is ready for it ends with its picture.
Begins(d, s, lines, calls) ==
  calls \in Seq(Strokes) /\ Len(calls) <= 4 /\ Finish(d, lines, calls) = Target(d, s)

LEMMA FrameBegins ==
  ASSUME NEW d \in Displays, NEW s \in 0..3, NEW lines, Ready(d, s, lines), NEW width,
         s = 0 => width = MAX_X[d]
  PROVE  Begins(d, s, lines, Frame(s, width))
<1>1. ASSUME s = 0 PROVE Begins(d, s, lines, Frame(s, width))
  <2> DEFINE calls == Welcome(width)
  <2>1. Frame(s, width) = calls
    BY <1>1 DEF Frame
  <2>2. width \in {20, 48} /\ width = MAX_X[d]
    BY <1>1 DEF MAX_X
  <2>3. Len(calls) = 4 /\ calls[1] = Command("cls") /\ calls = <<calls[1], calls[2], calls[3], calls[4]>>
    BY DEF Welcome
  <2>4. \A k \in 1..4 : calls[k] \in Strokes
    BY <2>2 DEF Strokes
  <2>5. Target(d, s) = Picture(d, calls)
    BY <1>1, <2>2 DEF Target
  <2> HIDE DEF calls
  <2>6. calls[1] \in Strokes /\ calls[2] \in Strokes /\ calls[3] \in Strokes /\ calls[4] \in Strokes
    BY <2>4
  <2>7. <<calls[1], calls[2], calls[3], calls[4]>> \in Seq(Strokes)
    BY <2>6, ShortSequences
  <2>8. calls \in Seq(Strokes)
    BY <2>3, <2>7, Zenon
  <2>9. Finish(d, lines, calls) = Picture(d, calls)
    BY <2>3, ClearedFrame
  <2> QED BY <2>1, <2>3, <2>5, <2>8, <2>9 DEF Begins
<1>2. ASSUME s = 1 PROVE Begins(d, s, lines, Frame(s, width))
  <2>1. Frame(s, width) = Bunny
    BY <1>2 DEF Frame
  <2>2. Bunny = <<Bunny[1], Bunny[2], Bunny[3], Bunny[4]>>
    BY DEF Bunny
  <2>3. Bunny[1] \in Strokes /\ Bunny[2] \in Strokes /\ Bunny[3] \in Strokes /\ Bunny[4] \in Strokes
    BY DEF Strokes
  <2>4. <<Bunny[1], Bunny[2], Bunny[3], Bunny[4]>> \in Seq(Strokes)
    BY <2>3, ShortSequences
  <2>5. Bunny \in Seq(Strokes)
    BY <2>2, <2>4, Zenon
  <2>6. Finish(d, lines, Bunny) = Picture(d, Bunny)
    BY BunnyIs, ClearedFrame
  <2>7. Target(d, s) = Picture(d, Bunny)
    BY <1>2 DEF Target
  <2>8. Len(Bunny) <= 4
    BY BunnyLength
  <2> QED BY <2>1, <2>5, <2>6, <2>7, <2>8 DEF Begins
<1>3. ASSUME s = 2 PROVE Begins(d, s, lines, Frame(s, width))
  <2> DEFINE calls == <<EarsDown>>
  <2>1. Frame(s, width) = calls /\ lines = Picture(d, Bunny)
    BY <1>3 DEF Frame, Ready
  <2>2. EarsDown \in Strokes
    BY DEF Strokes
  <2>3. calls \in Seq(Strokes) /\ Len(calls) = 1 /\ calls[1] = EarsDown
    BY <2>2, ShortSequences
  <2> HIDE DEF calls
  <2>4. Finish(d, lines, calls) = display_1(d, lines, EarsDown)
    BY <2>3, FinishIs
  <2>5. Target(d, s) = Picture(d, Append(Bunny, EarsDown))
    BY <1>3 DEF Target
  <2> QED BY <2>1, <2>3, <2>4, <2>5, EarsGoDown DEF Begins
<1>4. ASSUME s = 3 PROVE Begins(d, s, lines, Frame(s, width))
  <2> DEFINE calls == <<EarsUp>>
  <2>1. Frame(s, width) = calls /\ lines = Picture(d, Append(Bunny, EarsDown))
    BY <1>4 DEF Frame, Ready
  <2>2. EarsUp \in Strokes
    BY DEF Strokes
  <2>3. calls \in Seq(Strokes) /\ Len(calls) = 1 /\ calls[1] = EarsUp
    BY <2>2, ShortSequences
  <2> HIDE DEF calls
  <2>4. Finish(d, lines, calls) = display_1(d, lines, EarsUp)
    BY <2>3, FinishIs
  <2>5. Target(d, s) = Picture(d, Bunny)
    BY <1>4 DEF Target
  <2> QED BY <2>1, <2>3, <2>4, <2>5, EarsGoUp DEF Begins
<1>5. s = 0 \/ s = 1 \/ s = 2 \/ s = 3
  OBVIOUS
<1> QED BY <1>1, <1>2, <1>3, <1>4, <1>5, Zenon

-----------------------------------------------------------------------------
(***************************************************************************)
(* The steps of main, and the display under the consumer's handle.         *)
(***************************************************************************)
Steps == Nat \ {0}

LEMMA ScriptCreates ==
  ASSUME NEW n \in Steps, n <= Len(Script), Script[n].op \in {"create", "destroy"}
  PROVE  Script[n].d \in Displays
<1>1. Len(Script) = 8
  BY DEF Script
<1>2. n \in 1..8
  BY <1>1 DEF Steps
<1>3. /\ Script[1].d \in Displays /\ Script[3].d \in Displays /\ Script[4].d \in Displays
      /\ Script[5].d \in Displays /\ Script[6].d \in Displays /\ Script[7].d \in Displays
  BY DEF Script, Create, Destroy, Displays
<1>4. Script[2].op = "my_consumer_create" /\ Script[8].op = "my_consumer_destroy"
  BY DEF Script
<1> QED BY <1>2, <1>3, <1>4

\* What main does to the IPC.
MainsCall ==
  \/ ipc_init \/ InitDone
  \/ \E d \in Descriptors : phase \in {"init", "up"} /\ Publish(main, d)
  \/ \E d \in Displays : FindToUnpublish(main, d, Forever)
  \/ Poll(main)

\* The handle stays, what is held stays in its slot, and what a current handle leads to
\* after the step it led to before.
HandleKept ==
  /\ UNCHANGED clients
  /\ holding[display] => CallTarget(display)' = CallTarget(display)
  /\ HandleIsCurrent(display)' /\ CallTarget(display)' # NoDescriptor =>
       HandleIsCurrent(display) /\ CallTarget(display)' = CallTarget(display)

LEMMA MainCallKeeps ==
  ASSUME IInv, ~MayDeinit, MainsCall
  PROVE  IInv' /\ HandleKept
<1>1. /\ main \in Threads /\ display \in Clients /\ Forever \in WaitOptions
      /\ Displays \subseteq Descriptors
  BY HardwareAssumption, ConstantsAssumption
<1>2. HandlesConsistent /\ HeldAnswersRequest /\ TypeOK
  BY DEF IInv, HandlesAreSound
<1>3. handle[display].slot \in Slots \cup {NoSlot} /\ handle[display].hash \in Nat
  BY <1>1, <1>2 DEF TypeOK, Handles
<1>4. holding[display] => handle[display].slot \in Slots /\ ref_count[handle[display].slot] > 1
                          /\ CallTarget(display) # NoDescriptor
  <2> SUFFICES ASSUME holding[display]
               PROVE  handle[display].slot \in Slots /\ ref_count[handle[display].slot] > 1
                        /\ CallTarget(display) # NoDescriptor
    OBVIOUS
  <2> DEFINE s == handle[display].slot
  <2>1. s \in Slots
    BY <1>1 DEF IInv, HoldersAreBusy
  <2>2. display \in Holders(s)
    BY <1>1 DEF Holders
  <2>3. ref_count[s] # 0 /\ ref_count[s] = 1 + Cardinality(Holders(s))
    BY <2>1, <2>2 DEF IInv, RefCountsHolders
  <2>4. IsFiniteSet(Holders(s)) /\ Cardinality(Holders(s)) # 0
    <3>1. IsFiniteSet(Holders(s))
      BY HoldersFinite
    <3> QED BY <2>2, <3>1, FS_EmptySet
  <2>5. Cardinality(Holders(s)) \in Nat
    BY <2>4, FS_CardinalityType
  <2>6. CallTarget(display) # NoDescriptor
    BY <1>1, <1>2 DEF HeldAnswersRequest, Answers
  <2> QED BY <2>1, <2>3, <2>4, <2>5, <2>6
<1>5. CASE ipc_init
  <2>1. IInv'
    BY <1>5, IpcInitInv
  <2>2. handle[display] = NoHandle /\ ~holding[display] /\ UNCHANGED clients
    BY <1>1, <1>2, <1>5 DEF ipc_init, HandlesConsistent, IInv, HoldersAreBusy
  <2>3. ~HandleIsCurrent(display)'
    BY <2>2 DEF HandleIsCurrent, NoHandle, clients
  <2> QED BY <2>1, <2>2, <2>3 DEF HandleKept
<1>6. CASE InitDone
  <2>1. IInv'
    BY <1>6, InitDoneInv
  <2> QED BY <1>6, <2>1 DEF InitDone, HandleKept, table, clients, HandleIsCurrent, CallTarget
<1>7. ASSUME NEW d \in Descriptors, phase \in {"init", "up"}, Publish(main, d)
      PROVE  IInv' /\ HandleKept
  <2>1. IInv'
    BY <1>1, <1>7, PublishInv
  <2>2. CASE UNCHANGED vars
    BY <2>1, <2>2 DEF vars, table, clients, HandleKept, HandleIsCurrent, CallTarget
  <2>3. CASE ~UNCHANGED vars
    <3>1. UNCHANGED clients
      BY <1>1, <1>7, <2>3, PublishMoves
    <3>2. PICK s \in Slots : /\ ref_count[s] = 0 /\ hash'[s] = publish_count
                             /\ \A x \in Slots \ {s} : descriptor'[x] = descriptor[x] /\ hash'[x] = hash[x]
      BY <1>1, <1>7, <2>3, PublishMoves
    <3>3. handle[display].hash < publish_count
      BY <1>1, <1>2, <1>7 DEF HandlesConsistent
    <3>4. publish_count \in Nat
      BY <1>2 DEF TypeOK
    <3>5. holding[display] => handle[display].slot # s
      BY <1>4, <3>2
    <3>6. HandleIsCurrent(display)' => handle[display].slot \in Slots \ {s}
      BY <1>3, <3>1, <3>2, <3>3, <3>4 DEF HandleIsCurrent, clients
    <3> QED BY <1>4, <2>1, <3>1, <3>2, <3>5, <3>6 DEF HandleKept, HandleIsCurrent, CallTarget, clients
  <2> QED BY <2>2, <2>3
<1>8. ASSUME NEW d \in Displays, FindToUnpublish(main, d, Forever)
      PROVE  IInv' /\ HandleKept
  <2>1. IInv'
    BY <1>1, <1>8, FindToUnpublishInv
  <2> QED BY <1>8, <2>1 DEF FindToUnpublish, HandleKept, table, clients, HandleIsCurrent, CallTarget
<1>9. CASE Poll(main)
  <2>1. IInv'
    BY <1>1, <1>9, PollInv
  <2>2. UNCHANGED <<hash, clients>>
    BY <1>1, <1>9, PollMoves
  <2>3. UNCHANGED descriptor \/ \E s \in Slots : Unused(s) /\ Remove(s)
    BY <1>1, <1>9, PollMoves
  <2>4. CASE UNCHANGED descriptor
    BY <2>1, <2>2, <2>4 DEF HandleKept, HandleIsCurrent, CallTarget, clients
  <2>5. ASSUME NEW s \in Slots, Unused(s), Remove(s)
        PROVE  HandleKept
    <3>1. ref_count[s] = 1 /\ descriptor' = [descriptor EXCEPT ![s] = NoDescriptor]
      BY <2>5 DEF Unused, Remove
    <3>2. holding[display] => handle[display].slot # s
      BY <1>4, <3>1
    <3>3. CallTarget(display)' = descriptor'[handle[display].slot]
      BY <2>2 DEF CallTarget, clients
    <3>4. descriptor \in [Slots -> Descriptors \cup {NoDescriptor}]
      BY <1>2 DEF TypeOK
    <3>5. handle[display].slot \in Slots =>
            CallTarget(display)' = IF handle[display].slot = s THEN NoDescriptor ELSE CallTarget(display)
      BY <3>1, <3>3, <3>4 DEF CallTarget
    <3>6. HandleIsCurrent(display)' => HandleIsCurrent(display) /\ handle[display].slot \in Slots
      BY <1>3, <2>2 DEF HandleIsCurrent, clients
    <3> QED BY <1>4, <2>2, <3>2, <3>5, <3>6 DEF HandleKept
  <2> QED BY <2>1, <2>3, <2>4, <2>5
<1> QED BY <1>5, <1>6, <1>7, <1>8, <1>9 DEF MainsCall

-----------------------------------------------------------------------------
(***************************************************************************)
(* The sample.                                                             *)
(***************************************************************************)

\* While it draws, what is left of the frame makes its picture of what is there; between
\* two frames, a handle that is still current leads to a display that is ready for the next.
Drawn ==
  LET d == CallTarget(display) IN
  /\ consumer = "measure" => state = 0
  /\ consumer = "draw" => Begins(d, state, mem[d], todo)
  /\ consumer = "release" => Ready(d, state, mem[d])
  /\ consumer \in {"check", "get"} /\ HandleIsCurrent(display) /\ d # NoDescriptor =>
       Ready(d, state, mem[d])

SampleInv ==
  /\ step \in Steps /\ state \in 0..3
  /\ mem = [d \in Displays |-> mem[d]]
  /\ step <= 2 => consumer = "off"
  /\ consumer = "off" => state = 0
  /\ holding[display] <=> consumer \in {"measure", "draw", "release"}
  /\ Drawn

\* What is held is a display.
LEMMA HeldIsDisplay ==
  ASSUME IInv, ~MayDeinit, holding[display]
  PROVE  CallTarget(display) \in Displays /\ CallTarget(display) # NoDescriptor
<1>1. display \in Clients /\ HeldAnswersRequest
  BY HardwareAssumption DEF IInv, HandlesAreSound
<1>2. handle[display].slot \in Slots
  BY <1>1 DEF IInv, HoldersAreBusy
<1>3. CallTarget(display) \in Descriptors \cup {NoDescriptor}
  BY <1>2 DEF IInv, TypeOK, CallTarget
<1>4. CallTarget(display) # NoDescriptor /\ Family[CallTarget(display)] = Request[display].family
  BY <1>1 DEF HeldAnswersRequest, Answers
<1> QED BY <1>3, <1>4, HardwareAssumption

LEMMA HeldIsDisplayNext ==
  ASSUME IInv', ~MayDeinit, holding'[display]
  PROVE  CallTarget(display)' \in Displays /\ CallTarget(display)' # NoDescriptor
<1>1. display \in Clients /\ HeldAnswersRequest'
  BY HardwareAssumption DEF IInv, HandlesAreSound
<1>2. handle'[display].slot \in Slots
  BY <1>1 DEF IInv, HoldersAreBusy
<1>3. CallTarget(display)' \in Descriptors \cup {NoDescriptor}
  BY <1>2 DEF IInv, TypeOK, CallTarget
<1>4. CallTarget(display)' # NoDescriptor /\ Family[CallTarget(display)'] = Request[display].family
  BY <1>1 DEF HeldAnswersRequest, Answers
<1> QED BY <1>3, <1>4, HardwareAssumption

\* main's steps, for the consumer.
LEMMA MainStepIs ==
  ASSUME SampleInv, MainStep
  PROVE  \/ /\ MainsCall \/ UNCHANGED vars
            /\ UNCHANGED <<consumer, state, todo, mem>>
            /\ step' \in {step, step + 1}
         \/ my_consumer_create
<1>1. CASE InitIpc
  <2>1. ASSUME publish_ipc_owned_interfaces(main) PROVE MainsCall
    BY <2>1, ConstantsAssumption DEF publish_ipc_owned_interfaces, OwnedSet, MainsCall
  <2> QED BY <1>1, <2>1 DEF InitIpc, sampleVars, MainsCall
<1>2. CASE contoso_display_create
  <2>1. step <= Len(Script) /\ Script[step].op = "create" /\ az_ulib_ipc_publish(main, Script[step].d)
    BY <1>2 DEF contoso_display_create, At
  <2>2. Script[step].d \in Displays
    BY <2>1, ScriptCreates DEF SampleInv
  <2>3. Script[step].d \in Descriptors /\ phase = "up" /\ Publish(main, Script[step].d)
    BY <2>1, <2>2, HardwareAssumption, ConstantsAssumption DEF az_ulib_ipc_publish
  <2>4. MainsCall
    BY <2>3 DEF MainsCall
  <2> QED BY <1>2, <2>4 DEF contoso_display_create, Advance
<1>3. CASE contoso_display_destroy
  <2>1. step <= Len(Script) /\ Script[step].op = "destroy" /\ FindToUnpublish(main, Script[step].d, Forever)
    BY <1>3 DEF contoso_display_destroy, At
  <2>2. Script[step].d \in Displays
    BY <2>1, ScriptCreates DEF SampleInv
  <2> QED BY <1>3, <2>1, <2>2 DEF contoso_display_destroy, sampleVars, MainsCall
<1>4. CASE Unpublish
  BY <1>4 DEF Unpublish, Advance, MainsCall
<1>5. CASE my_consumer_destroy
  BY <1>5 DEF my_consumer_destroy, Advance
<1> QED BY <1>1, <1>2, <1>3, <1>4, <1>5 DEF MainStep

LEMMA MainStepDraws ==
  ASSUME IInv, ~MayDeinit, SampleInv, MainStep
  PROVE  IInv' /\ SampleInv'
<1>1. CASE my_consumer_create
  <2>1. step = 2
    <3>1. Len(Script) = 8
      BY DEF Script
    <3>2. step \in 1..8 /\ Script[step].op = "my_consumer_create"
      BY <1>1, <3>1 DEF my_consumer_create, At, SampleInv, Steps
    <3>3. /\ Script[1].op # "my_consumer_create" /\ Script[3].op # "my_consumer_create"
          /\ Script[4].op # "my_consumer_create" /\ Script[5].op # "my_consumer_create"
          /\ Script[6].op # "my_consumer_create" /\ Script[7].op # "my_consumer_create"
          /\ Script[8].op # "my_consumer_create"
      BY DEF Script, Create, Destroy
    <3> QED BY <3>2, <3>3
  <2>2. consumer = "off" /\ state = 0 /\ ~holding[display]
    BY <2>1 DEF SampleInv
  <2>3. /\ UNCHANGED vars /\ UNCHANGED <<state, mem>>
        /\ consumer' = "check" /\ step' = 3
    BY <1>1, <2>1 DEF my_consumer_create, Advance
  <2>4. IInv' /\ UNCHANGED holding
    BY <2>3, StutterInv DEF vars, clients
  <2>5. Drawn'
    BY <2>2, <2>3 DEF Drawn, Ready
  <2> QED BY <2>2, <2>3, <2>4, <2>5 DEF SampleInv, Steps
<1>2. CASE /\ MainsCall \/ UNCHANGED vars
           /\ UNCHANGED <<consumer, state, todo, mem>>
           /\ step' \in {step, step + 1}
  <2>1. IInv' /\ HandleKept
    <3>1. ASSUME UNCHANGED vars PROVE IInv' /\ HandleKept
      BY <3>1, StutterInv DEF vars, table, clients, HandleKept, HandleIsCurrent, CallTarget
    <3> QED BY <1>2, <3>1, MainCallKeeps
  <2>2. UNCHANGED <<holding, handle>>
    BY <2>1 DEF HandleKept, clients
  <2>3. Drawn'
    <3> DEFINE d == CallTarget(display)
               e == CallTarget(display)'
    <3>1. UNCHANGED <<consumer, state, todo, mem>>
      BY <1>2
    <3>2. CASE holding[display]
      <4>1. e = d /\ consumer \in {"measure", "draw", "release"}
        BY <2>1, <3>2 DEF HandleKept, SampleInv
      <4> QED BY <3>1, <4>1 DEF Drawn, SampleInv
    <3>3. CASE ~holding[display]
      <4>1. consumer \notin {"measure", "draw", "release"}
        BY <3>3 DEF SampleInv
      <4>2. HandleIsCurrent(display)' /\ e # NoDescriptor => HandleIsCurrent(display) /\ e = d
        BY <2>1 DEF HandleKept
      <4> QED BY <3>1, <4>1, <4>2 DEF Drawn, SampleInv
    <3> QED BY <3>2, <3>3
  <2>4. step' \in Steps /\ (step' <= 2 => step <= 2)
    BY <1>2 DEF SampleInv, Steps
  <2> QED BY <1>2, <2>1, <2>2, <2>3, <2>4 DEF SampleInv
<1> QED BY <1>1, <1>2, MainStepIs

-----------------------------------------------------------------------------
(***************************************************************************)
(* The steps of the consumer.                                              *)
(***************************************************************************)
LEMMA GetDraws ==
  ASSUME IInv, ~MayDeinit, SampleInv, Get
  PROVE  IInv' /\ SampleInv'
<1> DEFINE d == CallTarget(display)
           e == CallTarget(display)'
<1>1. /\ consumer = "get" /\ try_get_interface(display) /\ UNCHANGED <<step, mem>>
      /\ ~holding[display] /\ UNCHANGED <<descriptor, hash>>
      /\ display \in Clients
  BY HardwareAssumption DEF Get, try_get_interface
<1>2. IInv'
  BY <1>1, TryGetInv
<1>3. holding \in [Clients -> BOOLEAN] /\ handle \in [Clients -> Handles]
  BY DEF IInv, TypeOK
<1>4. step' \in Steps /\ ~(step' <= 2) /\ mem' = [x \in Displays |-> mem'[x]]
  BY <1>1 DEF SampleInv
<1>5. CASE TryGetResult(display) = "AZ_OK"
  <2>1. /\ state' = IF Renewed THEN 0 ELSE state
        /\ consumer' = IF state' = 0 THEN "measure" ELSE "draw"
        /\ todo' = Frame(state', max_x)
    BY <1>5 DEF Get
  <2>2. holding'[display] /\ handle'[display].slot = SlotFor(display)
    BY <1>1, <1>3, <1>5 DEF try_get_interface
  <2>3. e \in Displays /\ e # NoDescriptor
    BY <1>2, <2>2, HeldIsDisplayNext
  <2>4. state' \in 0..3 /\ consumer' \in {"measure", "draw"}
    BY <2>1 DEF SampleInv
  <2>5. ASSUME consumer' = "draw"
        PROVE  Begins(e, state', mem'[e], todo')
    <3>1. state' # 0 /\ state' = state /\ HandleIsCurrent(display)
      BY <2>1, <2>5 DEF Renewed
    <3>2. e = d
      BY <1>1, <2>2, <3>1 DEF SlotFor, CallTarget
    <3>3. Ready(e, state', mem'[e])
      BY <1>1, <2>3, <3>1, <3>2 DEF SampleInv, Drawn
    <3> HIDE DEF e
    <3> QED BY <2>1, <2>3, <2>4, <3>1, <3>3, FrameBegins
  <2>6. consumer' = "measure" => state' = 0
    BY <2>1
  <2>7. Drawn'
    BY <2>4, <2>5, <2>6 DEF Drawn
  <2>8. holding[display]' <=> consumer' \in {"measure", "draw", "release"}
    BY <2>2, <2>4
  <2>9. consumer' # "off"
    BY <2>4
  <2> QED BY <1>2, <1>4, <2>4, <2>7, <2>8, <2>9 DEF SampleInv
<1>6. CASE TryGetResult(display) # "AZ_OK"
  <2>1. consumer' = "check" /\ UNCHANGED <<state, todo>> /\ UNCHANGED clients
    BY <1>1, <1>6 DEF Get, try_get_interface
  <2>2. Drawn'
    BY <1>1, <2>1 DEF SampleInv, Drawn, HandleIsCurrent, CallTarget, clients
  <2> QED BY <1>1, <1>2, <1>4, <2>1, <2>2 DEF SampleInv, clients
<1> QED BY <1>5, <1>6

LEMMA ConsumerStepDraws ==
  ASSUME IInv, ~MayDeinit, SampleInv, ConsumerStep
  PROVE  IInv' /\ SampleInv'
<1> DEFINE d == CallTarget(display)
<1>1. CASE Check
  <2>1. /\ consumer = "check" /\ consumer' \in {"ended", "get"}
        /\ UNCHANGED vars /\ UNCHANGED <<step, state, todo, mem>>
    BY <1>1 DEF Check
  <2>2. IInv' /\ UNCHANGED <<holding, handle, hash, descriptor>>
    BY <2>1, StutterInv DEF vars, clients, table
  <2>3. Drawn'
    BY <2>1, <2>2 DEF SampleInv, Drawn, HandleIsCurrent, CallTarget
  <2> QED BY <2>1, <2>2, <2>3 DEF SampleInv
<1>2. CASE Get
  BY <1>2, GetDraws
<1>3. CASE Measure
  <2>1. /\ consumer = "measure" /\ consumer' = "draw" /\ state = 0
        /\ UNCHANGED vars /\ UNCHANGED <<step, state, mem>>
        /\ max_x' = MAX_X[d] /\ todo' = Frame(0, MAX_X[d])
    BY <1>3 DEF Measure, SampleInv, Drawn
  <2>2. IInv' /\ UNCHANGED <<holding, handle, hash, descriptor>>
    BY <2>1, StutterInv DEF vars, clients, table
  <2>3. holding[display] /\ d \in Displays
    BY <2>1, HeldIsDisplay DEF SampleInv
  <2>4. Begins(d, 0, mem[d], Frame(0, MAX_X[d]))
    <3>1. Ready(d, 0, mem[d])
      BY DEF Ready
    <3> HIDE DEF d
    <3> QED BY <2>3, <3>1, FrameBegins
  <2>5. CallTarget(display)' = d
    BY <2>2 DEF CallTarget
  <2>6. Drawn'
    BY <2>1, <2>4, <2>5 DEF Drawn
  <2> QED BY <2>1, <2>2, <2>6 DEF SampleInv
<1>4. CASE Draw
  <2>1. /\ consumer = "draw" /\ todo # << >> /\ UNCHANGED consumer
        /\ UNCHANGED vars /\ UNCHANGED <<step, state>>
        /\ mem' = [mem EXCEPT ![d] = display_1(d, mem[d], Head(todo))] /\ todo' = Tail(todo)
    BY <1>4 DEF Draw
  <2>2. IInv' /\ UNCHANGED <<holding, handle, hash, descriptor>>
    BY <2>1, StutterInv DEF vars, clients, table
  <2>3. d \in Displays /\ Begins(d, state, mem[d], todo) /\ mem = [x \in Displays |-> mem[x]]
    BY <2>1, HeldIsDisplay DEF SampleInv, Drawn
  <2>4. CallTarget(display)' = d
    BY <2>2 DEF CallTarget
  <2> HIDE DEF d
  <2>5. mem'[d] = display_1(d, mem[d], Head(todo)) /\ mem' = [x \in Displays |-> mem'[x]]
    BY <2>1, <2>3
  <2>6. Begins(d, state, mem'[d], todo')
    BY <2>1, <2>3, <2>5, FinishGoesOn DEF Begins
  <2>7. Drawn'
    BY <2>1, <2>4, <2>6 DEF Drawn
  <2> QED BY <2>1, <2>2, <2>5, <2>7 DEF SampleInv
<1>5. CASE Invalidate
  <2>1. /\ consumer = "draw" /\ todo = << >> /\ consumer' = "release"
        /\ state' = NextFrame[state]
        /\ UNCHANGED vars /\ UNCHANGED <<step, mem>>
    BY <1>5 DEF Invalidate
  <2>2. IInv' /\ UNCHANGED <<holding, handle, hash, descriptor>>
    BY <2>1, StutterInv DEF vars, clients, table
  <2>3. Begins(d, state, mem[d], todo) /\ state \in 0..3
    BY <2>1 DEF SampleInv, Drawn
  <2>4. CallTarget(display)' = d
    BY <2>2 DEF CallTarget
  <2> HIDE DEF d
  <2>5. mem[d] = Target(d, state)
    <3>1. Len(todo) = 0
      BY <2>1
    <3> QED BY <2>3, <3>1, FinishIs DEF Begins
  <2>6. state' \in 0..3 /\ Ready(d, state', mem'[d])
    <3>1. NextFrame[state] \in 1..3 /\ Ready(d, NextFrame[state], Target(d, state))
      BY <2>3, TargetIsReady
    <3>2. \A n \in 1..3 : n \in 0..3
      OBVIOUS
    <3> QED BY <2>1, <2>5, <3>1, <3>2
  <2>7. Drawn'
    BY <2>1, <2>4, <2>6 DEF Drawn
  <2> QED BY <2>1, <2>2, <2>6, <2>7 DEF SampleInv
<1>6. CASE Release
  <2>1. /\ consumer = "release" /\ consumer' = "check" /\ release_interface(display)
        /\ UNCHANGED <<step, state, todo, mem>> /\ display \in Clients
    BY <1>6, HardwareAssumption DEF Release
  <2>2. IInv' /\ UNCHANGED <<handle, hash, descriptor>> /\ holding' = [holding EXCEPT ![display] = FALSE]
    BY <2>1, ReleaseInv DEF release_interface
  <2>3. ~holding'[display]
    BY <2>1, <2>2 DEF IInv, TypeOK
  <2>4. Drawn'
    BY <2>1, <2>2 DEF SampleInv, Drawn, CallTarget
  <2> QED BY <2>1, <2>2, <2>3, <2>4 DEF SampleInv
<1> QED BY <1>1, <1>2, <1>3, <1>4, <1>5, <1>6 DEF ConsumerStep

LEMMA SampleDraws ==
  ASSUME IInv, ~MayDeinit, SampleInv, [MainStep \/ ConsumerStep]_hardwareVars
  PROVE  IInv' /\ SampleInv'
<1>1. CASE UNCHANGED hardwareVars
  <2>1. UNCHANGED vars /\ UNCHANGED <<step, consumer, state, todo, mem>>
    BY <1>1 DEF hardwareVars, sampleVars
  <2>2. IInv' /\ UNCHANGED <<holding, handle, hash, descriptor>>
    BY <2>1, StutterInv DEF vars, clients, table
  <2>3. Drawn'
    BY <2>1, <2>2 DEF SampleInv, Drawn, HandleIsCurrent, CallTarget
  <2> QED BY <2>1, <2>2, <2>3 DEF SampleInv
<1> QED BY <1>1, MainStepDraws, ConsumerStepDraws

LEMMA SampleBegins == HardwareInit => IInv /\ SampleInv
<1> SUFFICES ASSUME HardwareInit PROVE IInv /\ SampleInv
  OBVIOUS
<1>1. IInv
  BY InitInv DEF HardwareInit
<1>2. /\ step = 1 /\ consumer = "off" /\ state = 0 /\ mem = [d \in Displays |-> Filled(d, Zero)]
      /\ ~holding[display]
  BY HardwareAssumption DEF HardwareInit, Init
<1>3. Drawn
  BY <1>2 DEF Drawn
<1> QED BY <1>1, <1>2, <1>3 DEF SampleInv, Steps

\* However main's exchanges of the display fall between the steps of the consumer, a
\* display is never told to show a frame that is not whole, or was drawn for another.
THEOREM ShowsWholePictures == ASSUME ~MayDeinit PROVE HardwareSpec => []PicturesAreWhole
<1>1. HardwareInit => IInv /\ SampleInv
  BY SampleBegins
<1>2. IInv /\ SampleInv /\ [MainStep \/ ConsumerStep]_hardwareVars => IInv' /\ SampleInv'
  BY SampleDraws
<1>3. ASSUME IInv, SampleInv
      PROVE  PicturesAreWhole
  <2> SUFFICES ASSUME consumer = "draw", todo = << >>
               PROVE  /\ CallTarget(display) \in Displays
                      /\ mem[CallTarget(display)] \in Pictures(CallTarget(display))
    BY DEF PicturesAreWhole
  <2> DEFINE d == CallTarget(display)
  <2>1. d \in Displays /\ Begins(d, state, mem[d], todo)
    BY <1>3, HeldIsDisplay DEF SampleInv, Drawn
  <2> HIDE DEF d
  <2>2. Len(todo) = 0
    OBVIOUS
  <2>3. mem[d] = Target(d, state)
    BY <2>1, <2>2, FinishIs DEF Begins
  <2>4. mem[d] \in Pictures(d)
    BY <2>3, TargetsArePictures
  <2> QED BY <2>1, <2>4 DEF d
<1> QED BY <1>1, <1>2, <1>3, PTL DEF HardwareSpec
=============================================================================
