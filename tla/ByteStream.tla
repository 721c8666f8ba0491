------------------------------ MODULE ByteStream ------------------------------
(***************************************************************************)
(* What the uStream API (az_ulib_ustream_base.h, az_ulib_ustream.h)        *)
(* promises its callers: a stream is a sequence of bytes of its own, whose *)
(* first byte has the number `first', with a position `at'.  No stream     *)
(* sees what is done to another one, whatever memory they share, each call *)
(* is atomic, and numbers never wrap.                                      *)
(***************************************************************************)
EXTENDS Integers, Sequences

CONSTANTS Instances, Contents, ReadSizes, Numbers, Closed

VARIABLES
  stream,               \* instance -> Closed, or [bytes, first, at]
  read                  \* the bytes of the read that has just returned

vars == <<stream, read>>

IsOpen(i) == stream[i] # Closed
End(i) == stream[i].first + Len(stream[i].bytes)

\* The bytes of stream i from number p to before number e.
Slice(i, p, e) == SubSeq(stream[i].bytes, p - stream[i].first + 1, e - stream[i].first)

Init == stream = [i \in Instances |-> Closed] /\ read = << >>

Change(i, s) == stream' = [stream EXCEPT ![i] = s] /\ read' = << >>

Create(i) ==
  \E bytes \in Contents : ~IsOpen(i) /\ Change(i, [bytes |-> bytes, first |-> 0, at |-> 0])

\* az_ulib_ustream_set_position and az_ulib_ustream_reset.
Move(i) ==
  /\ IsOpen(i)
  /\ \E p \in stream[i].first .. End(i) : Change(i, [stream[i] EXCEPT !.at = p])

\* az_ulib_ustream_release: bytes that were read are given up.
Forget(i) ==
  /\ IsOpen(i)
  /\ \E p \in stream[i].first + 1 .. stream[i].at :
       Change(i, [stream[i] EXCEPT !.first = p, !.bytes = Slice(i, p, End(i))])

Read(i) ==
  /\ IsOpen(i)
  /\ \E n \in ReadSizes :
       LET to == IF stream[i].at + n < End(i) THEN stream[i].at + n ELSE End(i) IN
       /\ stream' = [stream EXCEPT ![i].at = to]
       /\ read' = Slice(i, stream[i].at, to)

\* j gets what i has not read yet, numbered from p on.
Rest(i, p) == [bytes |-> Slice(i, stream[i].at, End(i)), first |-> p, at |-> p]
Copy(i, j) ==
  /\ IsOpen(i) /\ ~IsOpen(j)
  /\ \E p \in Numbers : Change(j, Rest(i, p))

Extend(i, j) ==
  /\ IsOpen(i) /\ IsOpen(j)
  /\ Change(i, [stream[i] EXCEPT !.bytes = @ \o Slice(j, stream[j].at, End(j))])

Divide(i, j) ==
  /\ IsOpen(i) /\ ~IsOpen(j)
  /\ \E p \in stream[i].at + 1 .. End(i) - 1 :
       /\ stream' = [stream EXCEPT
            ![i].bytes = Slice(i, stream[i].first, p),
            ![j] = [bytes |-> Slice(i, p, End(i)), first |-> p, at |-> p]]
       /\ read' = << >>

Dispose(i) == IsOpen(i) /\ Change(i, Closed)

\* A call that is refused, or a step of a call that has not returned.
Refuse == UNCHANGED stream /\ read' = << >>

Next ==
  \/ Refuse
  \/ \E i \in Instances :
       \/ Create(i) \/ Move(i) \/ Forget(i) \/ Read(i) \/ Dispose(i)
       \/ \E j \in Instances : Copy(i, j) \/ Extend(i, j) \/ Divide(i, j)

Spec == Init /\ [][Next]_vars
===============================================================================
