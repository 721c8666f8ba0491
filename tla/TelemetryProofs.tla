--------------------------- MODULE TelemetryProofs ---------------------------
(***************************************************************************)
(* Proofs about the sample ipc_telemetry: a sensor calls back late once at *)
(* most, and between my_consumer_create and my_consumer_destroy the        *)
(* consumer holds the interface and both subscriptions.                    *)
(***************************************************************************)
EXTENDS Telemetry, IpcProofs, SequenceTheorems

-----------------------------------------------------------------------------
(***************************************************************************)
(* One late telemetry.                                                     *)
(***************************************************************************)

\* Who is subscribed, or was when its thread looked, has no late telemetry yet.
LateInv ==
  /\ late \in [Sensors -> Nat]
  /\ DOMAIN callback = Sensors /\ DOMAIN thread = Sensors
  /\ \A s \in Sensors : callback[s] # NULL \/ thread[s] = "notify" => late[s] = 0
  /\ \A s \in Sensors : late[s] <= 1

LEMMA LateStep ==
  ASSUME LateInv, TelemetryNext
  PROVE  LateInv'
<1>1. ASSUME NEW s \in Sensors, SensorStep(s)
      PROVE  LateInv'
  <2>1. CASE CheckEnd(s)
    BY <2>1 DEF CheckEnd, LateInv
  <2>2. CASE Test(s)
    BY <2>2 DEF Test, Subscribed, LateInv
  <2>3. CASE Notify(s)
    BY <2>3 DEF Notify, LateInv
  <2> QED BY <1>1, <2>1, <2>2, <2>3 DEF SensorStep
<1>2. CASE MainStep
  <2>1. CASE UNCHANGED <<callback, thread, late>>
    BY <2>1 DEF LateInv
  <2>2. CASE thread_create
    BY <2>2 DEF thread_create, LateInv
  <2>3. CASE subscribe
    BY <2>3 DEF subscribe, LateInv, Callback, NULL
  <2>4. CASE unsubscribe
    BY <2>4 DEF unsubscribe, IsSubscriber, Cleared, LateInv, Callback, NULL
  <2> QED BY <1>2, <2>1, <2>2, <2>3, <2>4
      DEF MainStep, InitIpc, sampleVars, publish, get, release, sensors_1_destroy, unpublish
<1> QED BY <1>1, <1>2 DEF TelemetryNext

\* However unsubscribe and subscribe fall between a sensor's test of its subscription
\* and the call through it, one telemetry at most comes late.
THEOREM OneTelemetryIsLate == TelemetrySpec => []AtMostOneLate
<1>1. TelemetryInit => LateInv
  BY DEF TelemetryInit, LateInv
<1>2. LateInv /\ [TelemetryNext]_telemetryVars => LateInv'
  BY LateStep DEF telemetryVars, sampleVars, LateInv
<1>3. LateInv => AtMostOneLate
  BY DEF LateInv, AtMostOneLate
<1> QED BY <1>1, <1>2, <1>3, PTL DEF TelemetrySpec
-----------------------------------------------------------------------------
(***************************************************************************)
(* The script.                                                             *)
(***************************************************************************)
\* u is the m elements of s followed by the n elements of t.
Joined(u, s, t, m, n) ==
  /\ Len(u) = m + n
  /\ \A i \in 1..m : u[i] = s[i]
  /\ \A i \in 1..n : u[m + i] = t[i]

LEMMA ConcatJoins ==
  ASSUME NEW S, NEW m \in Nat, NEW n \in Nat,
         NEW s \in Seq(S), Len(s) = m, NEW t \in Seq(S), Len(t) = n
  PROVE  s \o t \in Seq(S) /\ Joined(s \o t, s, t, m, n)
<1> DEFINE u == s \o t
<1>1. u \in Seq(S) /\ Len(u) = m + n
  BY ConcatProperties
<1>2. \A i \in 1 .. m + n : u[i] = IF i <= m THEN s[i] ELSE t[i - m]
  BY ConcatProperties
<1> HIDE DEF u
<1>3. ASSUME NEW i \in 1..m PROVE u[i] = s[i]
  BY <1>2
<1>4. ASSUME NEW i \in 1..n PROVE u[m + i] = t[i]
  BY <1>2
<1>5. u \in Seq(S) /\ Joined(u, s, t, m, n)
  BY <1>1, <1>3, <1>4 DEF Joined
<1> QED BY <1>5 DEF u

LEMMA ThreeAreSeq ==
  ASSUME NEW S, NEW a \in S, NEW b \in S, NEW c \in S
  PROVE  <<a, b, c>> \in Seq(S) /\ Len(<<a, b, c>>) = 3
OBVIOUS

LEMMA FourAreSeq ==
  ASSUME NEW S, NEW a \in S, NEW b \in S, NEW c \in S, NEW d \in S
  PROVE  <<a, b, c, d>> \in Seq(S) /\ Len(<<a, b, c, d>>) = 4
OBVIOUS

\* What the n-th call of the script is, and the function of main's that makes it.
Entry(n, function, op, sensor) ==
  Script[n].function = function /\ Script[n].op = op /\ Script[n].sensor = sensor

LEMMA ScriptIs ==
  /\ Len(Script) = 19
  /\ Entry(1, <<"sensors_1_create", 1>>, "publish", "none")
  /\ Entry(2, <<"sensors_1_create", 1>>, "thread_create", "temperature")
  /\ Entry(3, <<"sensors_1_create", 1>>, "thread_create", "accelerometer")
  /\ \A k \in 1..2 : LET n == 6 * k - 3 IN
       /\ Entry(n + 1, <<"my_consumer_create", k>>, "get", "none")
       /\ Entry(n + 2, <<"my_consumer_create", k>>, "subscribe", "temperature")
       /\ Entry(n + 3, <<"my_consumer_create", k>>, "subscribe", "accelerometer")
       /\ Entry(n + 4, <<"my_consumer_destroy", k>>, "unsubscribe", "temperature")
       /\ Entry(n + 5, <<"my_consumer_destroy", k>>, "unsubscribe", "accelerometer")
       /\ Entry(n + 6, <<"my_consumer_destroy", k>>, "release", "none")
  /\ Entry(16, <<"sensors_1_destroy", 1>>, "end_thread", "none")
  /\ Entry(17, <<"sensors_1_destroy", 1>>, "join", "temperature")
  /\ Entry(18, <<"sensors_1_destroy", 1>>, "join", "accelerometer")
  /\ Entry(19, <<"sensors_1_destroy", 1>>, "unpublish", "none")
<1> DEFINE Functions == {"sensors_1_create", "my_consumer_create",
                         "my_consumer_destroy", "sensors_1_destroy"}
           Ops == {"publish", "thread_create", "get", "subscribe", "unsubscribe",
                   "release", "end_thread", "join", "unpublish"}
           Whose == {"none", "temperature", "accelerometer"}
           S == {Do(f, o, x) : f \in Functions \X (1..2), o \in Ops, x \in Whose}
           first == << Do(<<"sensors_1_create", 1>>, "publish", "none"),
                       Do(<<"sensors_1_create", 1>>, "thread_create", "temperature"),
                       Do(<<"sensors_1_create", 1>>, "thread_create", "accelerometer") >>
           last == << Do(<<"sensors_1_destroy", 1>>, "end_thread", "none"),
                      Do(<<"sensors_1_destroy", 1>>, "join", "temperature"),
                      Do(<<"sensors_1_destroy", 1>>, "join", "accelerometer"),
                      Do(<<"sensors_1_destroy", 1>>, "unpublish", "none") >>
           s1 == first \o Create(1)
           s2 == s1 \o Destroy(1)
           s3 == s2 \o Create(2)
           s4 == s3 \o Destroy(2)
           s5 == s4 \o last
<1>1. Script = s5
  BY DEF Script
<1>0. ASSUME NEW f \in Functions, NEW n \in 1..2, NEW o \in Ops, NEW x \in Whose
      PROVE  Do(<<f, n>>, o, x) \in S
  <2>1. <<f, n>> \in Functions \X (1..2)
    OBVIOUS
  <2> QED BY <2>1
<1> HIDE DEF S
<1>2. first \in Seq(S) /\ Len(first) = 3
  <2> DEFINE a == Do(<<"sensors_1_create", 1>>, "publish", "none")
             b == Do(<<"sensors_1_create", 1>>, "thread_create", "temperature")
             c == Do(<<"sensors_1_create", 1>>, "thread_create", "accelerometer")
  <2>1. a \in S /\ b \in S /\ c \in S
    BY <1>0
  <2>2. first = <<a, b, c>>
    OBVIOUS
  <2> HIDE DEF a, b, c, first
  <2> QED BY <2>1, <2>2, ThreeAreSeq
<1>3. ASSUME NEW n \in 1..2
      PROVE  /\ Create(n) \in Seq(S) /\ Len(Create(n)) = 3
             /\ Destroy(n) \in Seq(S) /\ Len(Destroy(n)) = 3
  <2>1. Create(n) \in Seq(S) /\ Len(Create(n)) = 3
    <3> DEFINE a == Do(<<"my_consumer_create", n>>, "get", "none")
               b == Do(<<"my_consumer_create", n>>, "subscribe", "temperature")
               c == Do(<<"my_consumer_create", n>>, "subscribe", "accelerometer")
    <3>1. a \in S /\ b \in S /\ c \in S
      BY <1>0
    <3>2. Create(n) = <<a, b, c>>
      BY DEF Create
    <3> HIDE DEF a, b, c
    <3> QED BY <3>1, <3>2, ThreeAreSeq
  <2>2. Destroy(n) \in Seq(S) /\ Len(Destroy(n)) = 3
    <3> DEFINE a == Do(<<"my_consumer_destroy", n>>, "unsubscribe", "temperature")
               b == Do(<<"my_consumer_destroy", n>>, "unsubscribe", "accelerometer")
               c == Do(<<"my_consumer_destroy", n>>, "release", "none")
    <3>1. a \in S /\ b \in S /\ c \in S
      BY <1>0
    <3>2. Destroy(n) = <<a, b, c>>
      BY DEF Destroy
    <3> HIDE DEF a, b, c
    <3> QED BY <3>1, <3>2, ThreeAreSeq
  <2> QED BY <2>1, <2>2
<1>4. last \in Seq(S) /\ Len(last) = 4
  <2> DEFINE a == Do(<<"sensors_1_destroy", 1>>, "end_thread", "none")
             b == Do(<<"sensors_1_destroy", 1>>, "join", "temperature")
             c == Do(<<"sensors_1_destroy", 1>>, "join", "accelerometer")
             d == Do(<<"sensors_1_destroy", 1>>, "unpublish", "none")
  <2>1. a \in S /\ b \in S /\ c \in S /\ d \in S
    BY <1>0
  <2>2. last = <<a, b, c, d>>
    OBVIOUS
  <2> HIDE DEF a, b, c, d, last
  <2> QED BY <2>1, <2>2, FourAreSeq
<1>5. /\ first[1] = Do(<<"sensors_1_create", 1>>, "publish", "none")
      /\ first[2] = Do(<<"sensors_1_create", 1>>, "thread_create", "temperature")
      /\ first[3] = Do(<<"sensors_1_create", 1>>, "thread_create", "accelerometer")
      /\ last[1] = Do(<<"sensors_1_destroy", 1>>, "end_thread", "none")
      /\ last[2] = Do(<<"sensors_1_destroy", 1>>, "join", "temperature")
      /\ last[3] = Do(<<"sensors_1_destroy", 1>>, "join", "accelerometer")
      /\ last[4] = Do(<<"sensors_1_destroy", 1>>, "unpublish", "none")
  OBVIOUS
<1> HIDE DEF first, last
<1>6. /\ s1 \in Seq(S) /\ Len(s1) = 6
      /\ \A i \in 1..3 : s1[i] = first[i]
      /\ \A i \in 1..3 : s1[3 + i] = Create(1)[i]
  <2> DEFINE t == Create(1)
  <2>1. t \in Seq(S) /\ Len(t) = 3 /\ first \in Seq(S) /\ Len(first) = 3
    BY <1>2, <1>3
  <2> HIDE DEF t
  <2>2. first \o t \in Seq(S) /\ Joined(first \o t, first, t, 3, 3)
    BY <2>1, ConcatJoins
  <2>3. s1 \in Seq(S) /\ Joined(s1, first, t, 3, 3)
    BY <2>2 DEF t
  <2> HIDE DEF s1
  <2>4. /\ s1 \in Seq(S) /\ Len(s1) = 6
        /\ \A i \in 1..3 : s1[i] = first[i]
        /\ \A i \in 1..3 : s1[3 + i] = t[i]
    BY <2>3 DEF Joined
  <2> QED BY <2>4 DEF t
<1> HIDE DEF s1
<1>7. /\ s2 \in Seq(S) /\ Len(s2) = 9
      /\ \A i \in 1..6 : s2[i] = s1[i]
      /\ \A i \in 1..3 : s2[6 + i] = Destroy(1)[i]
  <2> DEFINE t == Destroy(1)
  <2>1. t \in Seq(S) /\ Len(t) = 3 /\ s1 \in Seq(S) /\ Len(s1) = 6
    BY <1>6, <1>3
  <2> HIDE DEF t
  <2>2. s1 \o t \in Seq(S) /\ Joined(s1 \o t, s1, t, 6, 3)
    BY <2>1, ConcatJoins
  <2>3. s2 \in Seq(S) /\ Joined(s2, s1, t, 6, 3)
    BY <2>2 DEF t
  <2> HIDE DEF s2
  <2>4. /\ s2 \in Seq(S) /\ Len(s2) = 9
        /\ \A i \in 1..6 : s2[i] = s1[i]
        /\ \A i \in 1..3 : s2[6 + i] = t[i]
    BY <2>3 DEF Joined
  <2> QED BY <2>4 DEF t
<1> HIDE DEF s2
<1>8. /\ s3 \in Seq(S) /\ Len(s3) = 12
      /\ \A i \in 1..9 : s3[i] = s2[i]
      /\ \A i \in 1..3 : s3[9 + i] = Create(2)[i]
  <2> DEFINE t == Create(2)
  <2>1. t \in Seq(S) /\ Len(t) = 3 /\ s2 \in Seq(S) /\ Len(s2) = 9
    BY <1>7, <1>3
  <2> HIDE DEF t
  <2>2. s2 \o t \in Seq(S) /\ Joined(s2 \o t, s2, t, 9, 3)
    BY <2>1, ConcatJoins
  <2>3. s3 \in Seq(S) /\ Joined(s3, s2, t, 9, 3)
    BY <2>2 DEF t
  <2> HIDE DEF s3
  <2>4. /\ s3 \in Seq(S) /\ Len(s3) = 12
        /\ \A i \in 1..9 : s3[i] = s2[i]
        /\ \A i \in 1..3 : s3[9 + i] = t[i]
    BY <2>3 DEF Joined
  <2> QED BY <2>4 DEF t
<1> HIDE DEF s3
<1>9. /\ s4 \in Seq(S) /\ Len(s4) = 15
      /\ \A i \in 1..12 : s4[i] = s3[i]
      /\ \A i \in 1..3 : s4[12 + i] = Destroy(2)[i]
  <2> DEFINE t == Destroy(2)
  <2>1. t \in Seq(S) /\ Len(t) = 3 /\ s3 \in Seq(S) /\ Len(s3) = 12
    BY <1>8, <1>3
  <2> HIDE DEF t
  <2>2. s3 \o t \in Seq(S) /\ Joined(s3 \o t, s3, t, 12, 3)
    BY <2>1, ConcatJoins
  <2>3. s4 \in Seq(S) /\ Joined(s4, s3, t, 12, 3)
    BY <2>2 DEF t
  <2> HIDE DEF s4
  <2>4. /\ s4 \in Seq(S) /\ Len(s4) = 15
        /\ \A i \in 1..12 : s4[i] = s3[i]
        /\ \A i \in 1..3 : s4[12 + i] = t[i]
    BY <2>3 DEF Joined
  <2> QED BY <2>4 DEF t
<1> HIDE DEF s4
<1>10. /\ s5 \in Seq(S) /\ Len(s5) = 19
       /\ \A i \in 1..15 : s5[i] = s4[i]
       /\ \A i \in 1..4 : s5[15 + i] = last[i]
  <2> DEFINE t == last
  <2>1. t \in Seq(S) /\ Len(t) = 4 /\ s4 \in Seq(S) /\ Len(s4) = 15
    BY <1>9, <1>4
  <2> HIDE DEF t
  <2>2. s4 \o t \in Seq(S) /\ Joined(s4 \o t, s4, t, 15, 4)
    BY <2>1, ConcatJoins
  <2>3. s5 \in Seq(S) /\ Joined(s5, s4, t, 15, 4)
    BY <2>2 DEF t
  <2> HIDE DEF s5
  <2>4. /\ s5 \in Seq(S) /\ Len(s5) = 19
        /\ \A i \in 1..15 : s5[i] = s4[i]
        /\ \A i \in 1..4 : s5[15 + i] = t[i]
    BY <2>3 DEF Joined
  <2> QED BY <2>4 DEF t
<1> HIDE DEF s5
<1>11. /\ s5[1] = first[1] /\ s5[2] = first[2] /\ s5[3] = first[3]
       /\ s5[4] = Create(1)[1] /\ s5[5] = Create(1)[2] /\ s5[6] = Create(1)[3]
       /\ s5[7] = Destroy(1)[1] /\ s5[8] = Destroy(1)[2] /\ s5[9] = Destroy(1)[3]
       /\ s5[10] = Create(2)[1] /\ s5[11] = Create(2)[2] /\ s5[12] = Create(2)[3]
       /\ s5[13] = Destroy(2)[1] /\ s5[14] = Destroy(2)[2] /\ s5[15] = Destroy(2)[3]
       /\ s5[16] = last[1] /\ s5[17] = last[2] /\ s5[18] = last[3] /\ s5[19] = last[4]
  <2>1. /\ s1[4] = Create(1)[1] /\ s1[5] = Create(1)[2] /\ s1[6] = Create(1)[3]
    BY <1>6
  <2>2. /\ s1[1] = first[1] /\ s1[2] = first[2] /\ s1[3] = first[3]
    BY <1>6
  <2>3. /\ s2[7] = Destroy(1)[1] /\ s2[8] = Destroy(1)[2] /\ s2[9] = Destroy(1)[3]
    BY <1>7
  <2>4. /\ s2[1] = first[1] /\ s2[2] = first[2] /\ s2[3] = first[3]
        /\ s2[4] = Create(1)[1] /\ s2[5] = Create(1)[2] /\ s2[6] = Create(1)[3]
    BY <1>7, <2>1, <2>2
  <2>5. /\ s3[10] = Create(2)[1] /\ s3[11] = Create(2)[2] /\ s3[12] = Create(2)[3]
    BY <1>8
  <2>6. /\ s3[1] = first[1] /\ s3[2] = first[2] /\ s3[3] = first[3]
        /\ s3[4] = Create(1)[1] /\ s3[5] = Create(1)[2] /\ s3[6] = Create(1)[3]
        /\ s3[7] = Destroy(1)[1] /\ s3[8] = Destroy(1)[2] /\ s3[9] = Destroy(1)[3]
    BY <1>8, <2>3, <2>4
  <2>7. /\ s4[13] = Destroy(2)[1] /\ s4[14] = Destroy(2)[2] /\ s4[15] = Destroy(2)[3]
    BY <1>9
  <2>8. /\ s4[1] = first[1] /\ s4[2] = first[2] /\ s4[3] = first[3]
        /\ s4[4] = Create(1)[1] /\ s4[5] = Create(1)[2] /\ s4[6] = Create(1)[3]
        /\ s4[7] = Destroy(1)[1] /\ s4[8] = Destroy(1)[2] /\ s4[9] = Destroy(1)[3]
        /\ s4[10] = Create(2)[1] /\ s4[11] = Create(2)[2] /\ s4[12] = Create(2)[3]
    BY <1>9, <2>5, <2>6
  <2>9. /\ s5[16] = last[1] /\ s5[17] = last[2] /\ s5[18] = last[3] /\ s5[19] = last[4]
    BY <1>10
  <2>10. /\ s5[1] = first[1] /\ s5[2] = first[2] /\ s5[3] = first[3]
        /\ s5[4] = Create(1)[1] /\ s5[5] = Create(1)[2] /\ s5[6] = Create(1)[3]
        /\ s5[7] = Destroy(1)[1] /\ s5[8] = Destroy(1)[2] /\ s5[9] = Destroy(1)[3]
        /\ s5[10] = Create(2)[1] /\ s5[11] = Create(2)[2] /\ s5[12] = Create(2)[3]
        /\ s5[13] = Destroy(2)[1] /\ s5[14] = Destroy(2)[2] /\ s5[15] = Destroy(2)[3]
    BY <1>10, <2>7, <2>8, SMTT(60)
  <2> QED BY <2>9, <2>10, SMTT(60)
<1>12. ASSUME NEW k \in 1..2
       PROVE  LET n == 6 * k - 3 IN
              /\ s5[n + 1] = Create(k)[1] /\ s5[n + 2] = Create(k)[2] /\ s5[n + 3] = Create(k)[3]
              /\ s5[n + 4] = Destroy(k)[1] /\ s5[n + 5] = Destroy(k)[2] /\ s5[n + 6] = Destroy(k)[3]
  <2>1. CASE k = 1
    BY <1>11, <2>1
  <2>2. CASE k = 2
    BY <1>11, <2>2
  <2> QED BY <2>1, <2>2
<1>13. ASSUME NEW k \in 1..2
       PROVE  LET n == 6 * k - 3 IN
              /\ Entry(n + 1, <<"my_consumer_create", k>>, "get", "none")
              /\ Entry(n + 2, <<"my_consumer_create", k>>, "subscribe", "temperature")
              /\ Entry(n + 3, <<"my_consumer_create", k>>, "subscribe", "accelerometer")
              /\ Entry(n + 4, <<"my_consumer_destroy", k>>, "unsubscribe", "temperature")
              /\ Entry(n + 5, <<"my_consumer_destroy", k>>, "unsubscribe", "accelerometer")
              /\ Entry(n + 6, <<"my_consumer_destroy", k>>, "release", "none")
  BY <1>1, <1>12 DEF Entry, Create, Destroy, Do
<1>14. Len(Script) = 19
  BY <1>1, <1>10
<1>15. /\ Entry(1, <<"sensors_1_create", 1>>, "publish", "none")
       /\ Entry(2, <<"sensors_1_create", 1>>, "thread_create", "temperature")
       /\ Entry(3, <<"sensors_1_create", 1>>, "thread_create", "accelerometer")
       /\ Entry(16, <<"sensors_1_destroy", 1>>, "end_thread", "none")
       /\ Entry(17, <<"sensors_1_destroy", 1>>, "join", "temperature")
       /\ Entry(18, <<"sensors_1_destroy", 1>>, "join", "accelerometer")
       /\ Entry(19, <<"sensors_1_destroy", 1>>, "unpublish", "none")
  BY <1>1, <1>5, <1>11 DEF Entry, Do
<1> QED BY <1>13, <1>14, <1>15

\* Where the calls are.
LEMMA CallsOf ==
  ASSUME NEW n \in 1..19
  PROVE  LET op == Script[n].op
             sensor == Script[n].sensor
         IN
         /\ op = "publish" <=> n = 1
         /\ op = "thread_create" <=> n \in {2, 3}
         /\ op = "get" <=> n \in {4, 10}
         /\ op = "subscribe" <=> n \in {5, 6, 11, 12}
         /\ op = "unsubscribe" <=> n \in {7, 8, 13, 14}
         /\ op = "release" <=> n \in {9, 15}
         /\ op = "end_thread" <=> n = 16
         /\ op = "join" <=> n \in {17, 18}
         /\ op = "unpublish" <=> n = 19
         /\ n \in {5, 7, 11, 13} => sensor = "temperature"
         /\ n \in {6, 8, 12, 14} => sensor = "accelerometer"
<1>1. /\ Entry(4, <<"my_consumer_create", 1>>, "get", "none")
      /\ Entry(5, <<"my_consumer_create", 1>>, "subscribe", "temperature")
      /\ Entry(6, <<"my_consumer_create", 1>>, "subscribe", "accelerometer")
      /\ Entry(7, <<"my_consumer_destroy", 1>>, "unsubscribe", "temperature")
      /\ Entry(8, <<"my_consumer_destroy", 1>>, "unsubscribe", "accelerometer")
      /\ Entry(9, <<"my_consumer_destroy", 1>>, "release", "none")
  BY ScriptIs
<1>2. /\ Entry(10, <<"my_consumer_create", 2>>, "get", "none")
      /\ Entry(11, <<"my_consumer_create", 2>>, "subscribe", "temperature")
      /\ Entry(12, <<"my_consumer_create", 2>>, "subscribe", "accelerometer")
      /\ Entry(13, <<"my_consumer_destroy", 2>>, "unsubscribe", "temperature")
      /\ Entry(14, <<"my_consumer_destroy", 2>>, "unsubscribe", "accelerometer")
      /\ Entry(15, <<"my_consumer_destroy", 2>>, "release", "none")
  BY ScriptIs
<1> QED BY <1>1, <1>2, ScriptIs DEF Entry

\* Where the functions begin, and which of them is my_consumer_destroy.
LEMMA FunctionsBegin ==
  /\ Script[1].function[1] = "sensors_1_create" /\ Script[4].function[1] = "my_consumer_create"
  /\ Script[7].function[1] = "my_consumer_destroy" /\ Script[10].function[1] = "my_consumer_create"
  /\ Script[13].function[1] = "my_consumer_destroy" /\ Script[16].function[1] = "sensors_1_destroy"
  /\ \A n \in {2, 3, 5, 6, 8, 9, 11, 12, 14, 15, 17, 18, 19} :
       Script[n].function = Script[n - 1].function
<1>1. ASSUME NEW k \in 1..2, NEW i \in 1..3
      PROVE  /\ Script[6 * k - 3 + i].function = <<"my_consumer_create", k>>
             /\ Script[6 * k + i].function = <<"my_consumer_destroy", k>>
  BY ScriptIs DEF Entry
<1>2. /\ Script[4].function = <<"my_consumer_create", 1>>
      /\ Script[5].function = Script[4].function /\ Script[6].function = Script[5].function
      /\ Script[7].function = <<"my_consumer_destroy", 1>>
      /\ Script[8].function = Script[7].function /\ Script[9].function = Script[8].function
      /\ Script[10].function = <<"my_consumer_create", 2>>
      /\ Script[11].function = Script[10].function /\ Script[12].function = Script[11].function
      /\ Script[13].function = <<"my_consumer_destroy", 2>>
      /\ Script[14].function = Script[13].function /\ Script[15].function = Script[14].function
  BY <1>1
<1>3. /\ Script[1].function = <<"sensors_1_create", 1>>
      /\ Script[2].function = Script[1].function /\ Script[3].function = Script[2].function
      /\ Script[16].function = <<"sensors_1_destroy", 1>>
      /\ Script[17].function = Script[16].function /\ Script[18].function = Script[17].function
      /\ Script[19].function = Script[18].function
  BY ScriptIs DEF Entry
<1>4. ASSUME NEW n \in {2, 3, 5, 6, 8, 9, 11, 12, 14, 15, 17, 18, 19}
      PROVE  Script[n].function = Script[n - 1].function
  <2>1. n \in {2, 3, 17, 18, 19} => Script[n].function = Script[n - 1].function
    BY <1>3, SMTT(60)
  <2>2. n \in {5, 6, 8, 9} => Script[n].function = Script[n - 1].function
    BY <1>2, SMTT(60)
  <2>3. n \in {11, 12, 14, 15} => Script[n].function = Script[n - 1].function
    BY <1>2, SMTT(60)
  <2> QED BY <2>1, <2>2, <2>3
<1>5. /\ Script[1].function[1] = "sensors_1_create" /\ Script[4].function[1] = "my_consumer_create"
      /\ Script[7].function[1] = "my_consumer_destroy" /\ Script[10].function[1] = "my_consumer_create"
      /\ Script[13].function[1] = "my_consumer_destroy" /\ Script[16].function[1] = "sensors_1_destroy"
  BY <1>2, <1>3
<1> QED BY <1>4, <1>5

-----------------------------------------------------------------------------
(***************************************************************************)
(* The invariant: what the consumer has at each step of the script.  It is *)
(* the only client, so what it finds is what the producer published.       *)
(***************************************************************************)
Held == (5..9) \cup (11..15)
On(s) == IF s = "temperature" THEN (6..7) \cup (12..13) ELSE (7..8) \cup (13..14)

\* Before the producer is published: the table has the IPC's own interfaces, in their
\* order, and nobody knows the producer.
Fresh ==
  /\ phase \in {"down", "init", "up"}
  /\ handle[consumer].slot = NoSlot
  /\ registry[NameOf(sensors_1)] = "absent"
  /\ \A s \in Slots : descriptor[s] # NoDescriptor =>
       s \in DOMAIN Owned /\ descriptor[s] = Owned[s]

\* From then on: the producer is the default, and the consumer's handle leads to it.
StandsIn(s) ==
  /\ descriptor[s] = sensors_1 /\ flags[s] = {"DEFAULT"} /\ Published(s)
  /\ handle[consumer].slot \in {NoSlot, s}

ConsumerInv ==
  /\ step \in 1..20
  /\ step = 1 => Fresh
  /\ step # 1 => phase = "up"
  /\ step \in 2..18 => \E s \in Slots : StandsIn(s)
  /\ holding[consumer] <=> step \in Held
  /\ callback = [s \in Sensors |-> IF step \in On(s) THEN Callback ELSE NULL]

LEMMA TelemetryBegins == TelemetryInit => IInv /\ ConsumerInv
<1> SUFFICES ASSUME TelemetryInit PROVE IInv /\ ConsumerInv
  OBVIOUS
<1>1. IInv
  BY InitInv DEF TelemetryInit
<1>2. NameOf(sensors_1) \in Names /\ consumer \in Clients
  BY TelemetryAssumption, ConstantsAssumption DEF Names
<1>3. Fresh
  BY <1>2 DEF TelemetryInit, Init, Fresh, NoHandle
<1>4. step = 1 /\ ~holding[consumer] /\ callback = [s \in Sensors |-> NULL]
  BY <1>2 DEF TelemetryInit, Init
<1>5. callback = [s \in Sensors |-> IF step \in On(s) THEN Callback ELSE NULL]
  BY <1>4 DEF On
<1> QED BY <1>1, <1>3, <1>4, <1>5 DEF ConsumerInv, Held

-----------------------------------------------------------------------------
(***************************************************************************)
(* The steps before the producer is published, and its publication.        *)
(***************************************************************************)

\* No name of the producer's is taken, and a slot is free.
LEMMA FreshIsOpen ==
  ASSUME IInv, Fresh
  PROVE  /\ \A name : name.family = Family[sensors_1] => lookup_interface(name) = NoSlot
         /\ get_first_free \in Slots
<1>1. ASSUME NEW name, name.family = Family[sensors_1], lookup_interface(name) # NoSlot
      PROVE  FALSE
  <2>1. PICK s \in Slots : Matches(name, s)
    BY <1>1, LookupFinds
  <2>2. descriptor[s] # NoDescriptor /\ Family[descriptor[s]] = Family[sensors_1]
    BY <1>1, <2>1 DEF Matches
  <2>3. descriptor[s] \in OwnedSet
    BY <2>2 DEF Fresh, OwnedSet
  <2> QED BY <2>2, <2>3, TelemetryAssumption
<1>2. PICK s \in Slots : s \notin DOMAIN Owned
  BY TelemetryAssumption, ConstantsAssumption DEF Slots
<1>3. ref_count[s] = 0
  BY <1>2 DEF Fresh, IInv, TypeOK, SlotsConsistent, Published
<1>4. get_first_free \in Slots
  BY <1>2, <1>3, FirstSlot DEF get_first_free
<1> QED BY <1>1, <1>4

\* The interfaces of the IPC go to their places, one after the other.
LEMMA OwnedFindsPlace ==
  ASSUME IInv, Fresh, LockFree, NEW i \in DOMAIN Owned \ OwnedPublished,
         1..(i - 1) \subseteq OwnedPublished, get_first_free # NoSlot
  PROVE  get_first_free = i
<1>1. i \in Slots /\ DOMAIN Owned \subseteq Slots
  BY ConstantsAssumption DEF Slots
<1>2. \A s \in Slots : descriptor[s] = NoDescriptor <=> ref_count[s] = 0
  BY ConstantsAssumption DEF IInv, TypeOK, SlotsConsistent, Published, LockFree
<1>3. descriptor[i] = NoDescriptor
  <2>1. find_interface_descriptor(Owned[i]) = NoSlot
    BY DEF OwnedPublished
  <2>2. descriptor[i] # Owned[i]
    BY <1>1, <2>1, FindDescriptorFinds
  <2> QED BY <1>1, <2>2 DEF Fresh
<1>4. ASSUME NEW j \in 1..(i - 1)
      PROVE  j \in Slots /\ descriptor[j] # NoDescriptor
  <2>1. j \in DOMAIN Owned /\ find_interface_descriptor(Owned[j]) # NoSlot
    BY DEF OwnedPublished
  <2>2. PICK s \in Slots : descriptor[s] = Owned[j]
    BY <2>1, FindDescriptorFinds
  <2>3. Owned[j] # NoDescriptor
    BY <2>1, ConstantsAssumption DEF OwnedSet
  <2>4. s \in DOMAIN Owned /\ Owned[s] = Owned[j]
    BY <2>2, <2>3 DEF Fresh
  <2> QED BY <1>1, <2>1, <2>2, <2>3, <2>4, ConstantsAssumption
<1>5. get_first_free \in Slots /\ ref_count[get_first_free] = 0
  BY FreeSlotIsFree
<1>6. get_first_free <= i
  <2> DEFINE S == {x \in Slots : ref_count[x] = 0}
  <2>1. S \in SUBSET Slots /\ i \in S
    BY <1>1, <1>2, <1>3
  <2>2. get_first_free = First(S)
    BY DEF get_first_free
  <2> HIDE DEF S
  <2> QED BY <2>1, <2>2, FirstSlot
<1> QED BY <1>1, <1>2, <1>4, <1>5, <1>6, ConstantsAssumption DEF Slots

LEMMA InitIpcConsumer ==
  ASSUME IInv, ConsumerInv, InitIpc
  PROVE  IInv' /\ ConsumerInv'
<1>1. UNCHANGED sampleVars /\ phase \in {"down", "init"}
  BY DEF InitIpc, ipc_init, publish_ipc_owned_interfaces, InitDone
<1>2. step = 1 /\ Fresh
  BY <1>1 DEF ConsumerInv
<1>3. UNCHANGED clients
  BY DEF InitIpc, ipc_init, publish_ipc_owned_interfaces, InitDone, Publish, vars
<1>4. ASSUME ipc_init
      PROVE  IInv' /\ Fresh'
  <2>1. IInv'
    BY <1>4, IpcInitInv
  <2> QED BY <1>2, <1>3, <1>4, <2>1 DEF ipc_init, Fresh, clients
<1>5. ASSUME InitDone
      PROVE  IInv' /\ Fresh'
  <2>1. IInv'
    BY <1>5, InitDoneInv
  <2> QED BY <1>2, <1>3, <1>5, <2>1 DEF InitDone, Fresh, clients, table
<1>6. ASSUME publish_ipc_owned_interfaces(main)
      PROVE  IInv' /\ Fresh'
  <2>1. PICK i \in DOMAIN Owned \ OwnedPublished :
          1..(i - 1) \subseteq OwnedPublished /\ Publish(main, Owned[i])
    BY <1>6 DEF publish_ipc_owned_interfaces
  <2>2. phase = "init" /\ LockFree /\ main \in Threads /\ Owned[i] \in Descriptors
        /\ Owned[i] \in OwnedSet
    BY <1>6, TelemetryAssumption, ConstantsAssumption
       DEF publish_ipc_owned_interfaces, AllIdle, OwnedSet
  <2>3. IInv'
    BY <2>1, <2>2, PublishInv
  <2>4. CASE UNCHANGED vars
    BY <1>2, <2>3, <2>4 DEF vars, table, clients, Fresh
  <2>5. CASE /\ get_first_free # NoSlot
             /\ descriptor' = [descriptor EXCEPT ![get_first_free] = Owned[i]]
             /\ registry' \in {registry, [registry EXCEPT ![NameOf(Owned[i])] = "default"]}
             /\ UNCHANGED <<phase, clients>>
    <3>1. get_first_free = i
      BY <1>2, <2>1, <2>2, <2>5, OwnedFindsPlace
    <3>2. NameOf(Owned[i]) # NameOf(sensors_1)
      BY <2>2, TelemetryAssumption DEF NameOf
    <3>3. registry'[NameOf(sensors_1)] = "absent"
      <4>1. registry \in [Names -> {"absent", "plain", "default"}] /\ NameOf(sensors_1) \in Names
        BY TelemetryAssumption, ConstantsAssumption DEF IInv, TypeOK, Names
      <4> QED BY <1>2, <2>5, <3>2, <4>1 DEF Fresh
    <3>4. ASSUME NEW s \in Slots, descriptor'[s] # NoDescriptor
          PROVE  s \in DOMAIN Owned /\ descriptor'[s] = Owned[s]
      BY <1>2, <2>5, <3>1, <3>4 DEF Fresh, IInv, TypeOK
    <3> QED BY <1>2, <2>3, <2>5, <3>3, <3>4 DEF Fresh, clients
  <2> QED BY <2>1, <2>4, <2>5 DEF Publish, RegistryWrite, RegistryFailure
<1>7. IInv' /\ Fresh'
  BY <1>4, <1>5, <1>6 DEF InitIpc
<1> QED BY <1>1, <1>2, <1>3, <1>7 DEF ConsumerInv, sampleVars, clients

LEMMA PublishConsumer ==
  ASSUME IInv, ConsumerInv, publish
  PROVE  IInv' /\ ConsumerInv'
<1>1. step \in 1..19 /\ Script[step].op = "publish"
  BY ScriptIs DEF publish, At, ConsumerInv
<1>2. step = 1 /\ Fresh /\ step' = 2 /\ UNCHANGED callback
  BY <1>1, CallsOf DEF publish, Advance, ConsumerInv
<1>3. phase = "up" /\ Publish(main, sensors_1) /\ main \in Threads /\ sensors_1 \in Descriptors
  BY TelemetryAssumption, ConstantsAssumption DEF publish, az_ulib_ipc_publish
<1>4. IInv'
  BY <1>3, PublishInv
<1>5. PICK s \in Slots :
        /\ s = get_first_free
        /\ lookup_interface(NameOf(sensors_1)) = NoSlot /\ DefaultOf(Family[sensors_1]) = NoSlot
  BY <1>2, FreshIsOpen DEF NameOf, DefaultOf
<1>6. registry[NameOf(sensors_1)] = "absent" /\ Version[sensors_1] # AnyVersion /\ s # NoSlot
  BY <1>2, <1>5, TelemetryAssumption, ConstantsAssumption DEF Fresh, Slots, NoSlot
<1>7. /\ descriptor' = [descriptor EXCEPT ![s] = sensors_1]
      /\ flags' = [flags EXCEPT ![s] = {"DEFAULT"}]
      /\ ref_count' = [ref_count EXCEPT ![s] = 1]
      /\ UNCHANGED <<phase, clients>>
  BY <1>3, <1>5, <1>6 DEF Publish
<1>8. StandsIn(s)'
  BY <1>2, <1>5, <1>7 DEF StandsIn, Published, Fresh, clients, IInv, TypeOK
<1> QED BY <1>2, <1>3, <1>4, <1>5, <1>7, <1>8 DEF ConsumerInv, Held, On, clients

-----------------------------------------------------------------------------
(***************************************************************************)
(* The steps of the consumer.                                              *)
(***************************************************************************)

\* While the producer stands and nobody holds it, a get succeeds.
LEMMA GetSucceeds ==
  ASSUME IInv, NEW s \in Slots, StandsIn(s), ~holding[consumer]
  PROVE  SlotFor(consumer) = s /\ TryGetResult(consumer) = "AZ_OK"
<1>1. s # NoSlot /\ MaxInstances \in Nat \ {0} /\ sensors_1 # NoDescriptor /\ "DEFAULT" \in flags[s]
      /\ descriptor[s] = sensors_1
  BY TelemetryAssumption, ConstantsAssumption DEF Slots, NoSlot, StandsIn
<1> DEFINE r == lookup_interface(Request[consumer])
<1>2. r = s
  <2>1. Matches(Request[consumer], s)
    BY <1>1, TelemetryAssumption DEF Matches
  <2>2. r \in Slots /\ Matches(Request[consumer], r)
    BY <2>1, LookupFinds
  <2>3. /\ descriptor[r] # NoDescriptor /\ Family[descriptor[r]] = Family[sensors_1]
        /\ "DEFAULT" \in flags[r]
    BY <2>2, TelemetryAssumption DEF Matches
  <2> HIDE DEF r
  <2> QED BY <1>1, <2>2, <2>3 DEF IInv, AtMostOneDefault
<1>3. SlotFor(consumer) = s
  BY <1>2 DEF SlotFor, HandleIsCurrent, StandsIn
<1>4. ref_count[s] = 1
  <2>1. Holders(s) = {}
    BY TelemetryAssumption DEF Holders
  <2>2. Cardinality({}) = 0
    BY FS_EmptySet
  <2> QED BY <2>1, <2>2 DEF IInv, RefCountsHolders, StandsIn, Published
<1>5. try_lock_interface(s) = "AZ_OK"
  BY <1>1, <1>4 DEF try_lock_interface, StandsIn
<1> QED BY <1>1, <1>3, <1>5 DEF TryGetResult

LEMMA GetConsumer ==
  ASSUME IInv, ConsumerInv, get
  PROVE  IInv' /\ ConsumerInv'
<1>1. step \in {4, 10}
  BY ScriptIs, CallsOf DEF get, At, ConsumerInv
<1>2. consumer \in Clients /\ try_get_interface(consumer) /\ UNCHANGED callback
  BY TelemetryAssumption DEF get
<1>3. IInv'
  BY <1>2, TryGetInv
<1>4. ~holding[consumer] /\ UNCHANGED <<phase, descriptor, flags>>
  BY <1>2 DEF try_get_interface
<1>5. PICK s \in Slots : StandsIn(s)
  BY <1>1 DEF ConsumerInv
<1>6. SlotFor(consumer) = s /\ TryGetResult(consumer) = "AZ_OK"
  BY <1>4, <1>5, GetSucceeds
<1>7. /\ ref_count' = [ref_count EXCEPT ![s] = @ + 1]
      /\ handle' = [handle EXCEPT ![consumer] = [slot |-> s, hash |-> hash[s]]]
      /\ holding' = [holding EXCEPT ![consumer] = TRUE]
  BY <1>2, <1>6 DEF try_get_interface
<1>8. /\ ref_count'[s] = ref_count[s] + 1 /\ ref_count[s] \in Nat
      /\ handle'[consumer].slot = s /\ holding'[consumer]
  BY <1>2, <1>7 DEF IInv, TypeOK
<1>9. step' = step + 1
  BY <1>8 DEF get, Advance
<1>10. StandsIn(s)'
  BY <1>4, <1>5, <1>8 DEF StandsIn, Published
<1>11. \A x \in Sensors : step' \in On(x) <=> step \in On(x)
  BY <1>1, <1>9 DEF On
<1> QED BY <1>1, <1>2, <1>3, <1>4, <1>8, <1>9, <1>10, <1>11 DEF ConsumerInv, Held

LEMMA ReleaseConsumer ==
  ASSUME IInv, ConsumerInv, release
  PROVE  IInv' /\ ConsumerInv'
<1>1. step \in {9, 15} /\ step' = step + 1
  BY ScriptIs, CallsOf DEF release, At, ConsumerInv, Advance
<1>2. consumer \in Clients /\ release_interface(consumer) /\ UNCHANGED callback
  BY TelemetryAssumption DEF release
<1>3. IInv'
  BY <1>2, ReleaseInv
<1>4. holding[consumer] /\ UNCHANGED <<phase, descriptor, flags, handle>>
      /\ ref_count' = [ref_count EXCEPT ![handle[consumer].slot] = @ - 1]
      /\ holding' = [holding EXCEPT ![consumer] = FALSE]
  BY <1>2 DEF release_interface
<1>5. PICK s \in Slots : StandsIn(s)
  BY <1>1 DEF ConsumerInv
<1>6. handle[consumer].slot = s
  BY <1>2, <1>4, <1>5 DEF StandsIn, IInv, HoldersAreBusy, Slots, NoSlot
<1>7. ref_count'[s] # 0
  <2>1. consumer \in Holders(s)
    BY <1>2, <1>4, <1>6 DEF Holders
  <2>2. Holders(s) = {consumer}
    BY <2>1, TelemetryAssumption DEF Holders
  <2>3. Cardinality(Holders(s)) = 1
    BY <2>2, FS_Singleton
  <2>4. ref_count[s] > 0
    BY <1>5 DEF StandsIn, Published
  <2>5. ref_count[s] = 2
    BY <2>3, <2>4 DEF IInv, RefCountsHolders
  <2>6. ref_count \in [Slots -> Nat]
    BY DEF IInv, TypeOK
  <2> QED BY <1>4, <1>6, <2>5, <2>6
<1>8. ref_count'[s] \in Nat /\ ~holding'[consumer]
  BY <1>2, <1>3, <1>4 DEF IInv, TypeOK
<1>9. StandsIn(s)'
  <2>1. Published(s)'
    BY <1>7, <1>8 DEF Published
  <2>2. UNCHANGED <<descriptor, flags, handle>>
    BY <1>4
  <2> QED BY <1>5, <2>1, <2>2 DEF StandsIn
<1>10. \A x \in Sensors : step' \in On(x) <=> step \in On(x)
  BY <1>1 DEF On
<1> QED BY <1>1, <1>2, <1>3, <1>4, <1>8, <1>9, <1>10 DEF ConsumerInv, Held

\* The steps that leave the IPC alone.
LEMMA IpcStays ==
  ASSUME IInv, ConsumerInv, UNCHANGED vars
  PROVE  /\ IInv'
         /\ step' \in 2..18 /\ step \in 2..18 => \E s \in Slots : StandsIn(s)'
         /\ UNCHANGED <<phase, holding>>
<1>1. IInv'
  BY StutterInv
<1>2. \A s \in Slots : StandsIn(s) => StandsIn(s)'
  BY DEF vars, table, clients, StandsIn, Published
<1> QED BY <1>1, <1>2 DEF ConsumerInv, vars, clients

LEMMA SubscribeConsumer ==
  ASSUME IInv, ConsumerInv, subscribe
  PROVE  IInv' /\ ConsumerInv'
<1>1. /\ step \in {5, 6, 11, 12}
      /\ step \in {5, 11} => Sensor = "temperature"
      /\ step \in {6, 12} => Sensor = "accelerometer"
  BY ScriptIs, CallsOf DEF subscribe, At, ConsumerInv, Sensor
<1>2. Sensor \in Sensors /\ step \notin On(Sensor)
  BY <1>1, TelemetryAssumption DEF On
<1>3. callback[Sensor] = NULL
  BY <1>2 DEF ConsumerInv
<1>4. /\ callback' = [callback EXCEPT ![Sensor] = Callback]
      /\ step' = step + 1 /\ UNCHANGED vars
  BY <1>3 DEF subscribe, Advance
<1>5. \A x \in Sensors : step' \in On(x) <=> step \in On(x) \/ x = Sensor
  BY <1>1, <1>4, TelemetryAssumption DEF On
<1>6. callback' = [x \in Sensors |-> IF step' \in On(x) THEN Callback ELSE NULL]
  BY <1>2, <1>4, <1>5 DEF ConsumerInv
<1> QED BY <1>1, <1>4, <1>6, IpcStays DEF ConsumerInv, Held

LEMMA UnsubscribeConsumer ==
  ASSUME IInv, ConsumerInv, unsubscribe
  PROVE  IInv' /\ ConsumerInv'
<1>1. /\ step \in {7, 8, 13, 14}
      /\ step \in {7, 13} => Sensor = "temperature"
      /\ step \in {8, 14} => Sensor = "accelerometer"
  BY ScriptIs, CallsOf DEF unsubscribe, At, ConsumerInv, Sensor
<1>2. Sensor \in Sensors /\ step \in On(Sensor)
  BY <1>1, TelemetryAssumption DEF On
<1>3. callback[Sensor] = Callback
  BY <1>2 DEF ConsumerInv
<1>4. /\ callback' = [callback EXCEPT ![Sensor] = NULL]
      /\ step' = step + 1 /\ UNCHANGED vars
  BY <1>3 DEF unsubscribe, IsSubscriber, Cleared, Advance
<1>5. \A x \in Sensors : step' \in On(x) <=> step \in On(x) /\ x # Sensor
  BY <1>1, <1>4, TelemetryAssumption DEF On
<1>6. callback' = [x \in Sensors |-> IF step' \in On(x) THEN Callback ELSE NULL]
  BY <1>2, <1>4, <1>5 DEF ConsumerInv
<1> QED BY <1>1, <1>4, <1>6, IpcStays DEF ConsumerInv, Held

\* Threads start and end.
LEMMA ThreadsConsumer ==
  ASSUME IInv, ConsumerInv, thread_create \/ sensors_1_destroy
  PROVE  IInv' /\ ConsumerInv'
<1>1. step \in {2, 3, 16, 17, 18}
  BY ScriptIs, CallsOf DEF thread_create, sensors_1_destroy, At, ConsumerInv
<1>2. step' = step + 1 /\ UNCHANGED callback /\ UNCHANGED vars
  BY DEF thread_create, sensors_1_destroy, Advance
<1>3. \A x \in Sensors : step' \in On(x) <=> step \in On(x)
  BY <1>1, <1>2 DEF On
<1> QED BY <1>1, <1>2, <1>3, IpcStays DEF ConsumerInv, Held

LEMMA UnpublishConsumer ==
  ASSUME IInv, ConsumerInv, unpublish
  PROVE  IInv' /\ ConsumerInv'
<1>1. step = 19 /\ step' \in {19, 20} /\ UNCHANGED callback
  BY ScriptIs, CallsOf DEF unpublish, At, ConsumerInv, Advance
<1>2. IInv' /\ UNCHANGED <<phase, holding>>
  <2>1. main \in Threads /\ sensors_1 \in Descriptors /\ Forever \in WaitOptions
    BY TelemetryAssumption, ConstantsAssumption
  <2>2. ASSUME FindToUnpublish(main, sensors_1, Forever)
        PROVE  IInv' /\ UNCHANGED <<phase, holding>>
    BY <2>1, <2>2, FindToUnpublishInv DEF FindToUnpublish, clients
  <2>3. ASSUME Poll(main)
        PROVE  IInv' /\ UNCHANGED <<phase, holding>>
    BY <2>1, <2>3, PollInv DEF Poll, clients
  <2> QED BY <2>2, <2>3 DEF unpublish
<1>3. \A x \in Sensors : step' \in On(x) <=> step \in On(x)
  BY <1>1 DEF On
<1> QED BY <1>1, <1>2, <1>3 DEF ConsumerInv, Held

LEMMA TelemetryStep ==
  ASSUME IInv, ConsumerInv, [TelemetryNext]_telemetryVars
  PROVE  IInv' /\ ConsumerInv'
<1>1. ASSUME UNCHANGED vars, UNCHANGED <<step, callback>>
      PROVE  IInv' /\ ConsumerInv'
  <2>1. IInv'
    BY <1>1, StutterInv
  <2>2. Fresh => Fresh'
    BY <1>1 DEF Fresh, vars, table, clients
  <2> QED BY <1>1, <2>1, <2>2, IpcStays DEF ConsumerInv
<1>2. ASSUME NEW s \in Sensors, SensorStep(s)
      PROVE  IInv' /\ ConsumerInv'
  BY <1>1, <1>2 DEF SensorStep, CheckEnd, Test, Notify
<1>3. CASE UNCHANGED telemetryVars
  BY <1>1, <1>3 DEF telemetryVars, sampleVars
<1>4. CASE MainStep
  BY <1>4, InitIpcConsumer, PublishConsumer, ThreadsConsumer, GetConsumer, SubscribeConsumer,
     UnsubscribeConsumer, ReleaseConsumer, UnpublishConsumer DEF MainStep
<1> QED BY <1>2, <1>3, <1>4 DEF TelemetryNext

\* Whatever the sensors are doing meanwhile, no call of the consumer's fails: it has the
\* interface and both subscriptions when it is destroyed, and neither when it is created.
THEOREM ConsumerIsSubscribed == TelemetrySpec => []SubscribedWhileHeld
<1>1. ASSUME IInv, ConsumerInv
      PROVE  SubscribedWhileHeld
  <2> SUFFICES ASSUME step <= Len(Script), AtStart
               PROVE  LET in == Function = "my_consumer_destroy" IN
                      /\ holding[consumer] = in
                      /\ \A s \in Sensors : (callback[s] = Callback) = in
    BY DEF SubscribedWhileHeld
  <2>1. step \in 1..19
    BY <1>1, ScriptIs DEF ConsumerInv
  <2>2. step \in {1, 4, 7, 10, 13, 16}
    <3>1. step \in {1, 4, 7, 10, 13, 16}
            \/ step \in {2, 3, 5, 6, 8, 9, 11, 12, 14, 15, 17, 18, 19}
      BY <2>1
    <3>2. step = 1 \/ Script[step].function # Script[step - 1].function
      BY DEF AtStart
    <3> QED BY <3>1, <3>2, FunctionsBegin
  <2>3. Function = "my_consumer_destroy" <=> step \in {7, 13}
    BY <2>1, <2>2, FunctionsBegin, ScriptIs DEF Function
  <2>4. holding[consumer] \in BOOLEAN /\ (holding[consumer] <=> step \in {7, 13})
    BY <1>1, <2>2, TelemetryAssumption DEF ConsumerInv, Held, IInv, TypeOK
  <2>5. ASSUME NEW s \in Sensors
        PROVE  callback[s] = Callback <=> step \in {7, 13}
    BY <1>1, <2>2, TelemetryAssumption DEF ConsumerInv, On, Callback, NULL
  <2> DEFINE in == Function = "my_consumer_destroy"
  <2>6. holding[consumer] = in
    BY <2>3, <2>4
  <2>7. ASSUME NEW s \in Sensors
        PROVE  (callback[s] = Callback) = in
    BY <2>3, <2>5
  <2> QED BY <2>6, <2>7
<1> QED BY <1>1, TelemetryBegins, TelemetryStep, PTL DEF TelemetrySpec
=============================================================================
