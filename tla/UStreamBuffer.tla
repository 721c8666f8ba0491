---------------------------- MODULE UStreamBuffer ----------------------------
(***************************************************************************)
(* One az_ulib_ustream: the fields of an instance and what each call of    *)
(* ustream.c computes from them.  Positions are size_t numbers: callers    *)
(* use logical positions, the instance keeps inner ones, and offset_diff,  *)
(* a difference modulo 2^w, translates between the two.                    *)
(***************************************************************************)
EXTENDS Integers

CONSTANT
  UINT32_MAX            \* the highest position: size_t is 32 bits wide on the targets

ASSUME PositionAssumption == UINT32_MAX \in Nat \ {0}

Positions == 0..UINT32_MAX
Wrap(n) == n % (UINT32_MAX + 1)

\* length is where the data ends, as an inner position, whatever the first
\* valid position is.
Instance(block, length) ==
  [control_block |-> block, offset_diff |-> 0,
   inner_current_position |-> 0, inner_first_valid_position |-> 0, length |-> length]

InstancesOf(Blocks) ==
  [control_block : Blocks, offset_diff : Positions,
   inner_current_position : Positions, inner_first_valid_position : Positions, length : Positions]

Inner(u, position) == Wrap(position - u.offset_diff)

Reaches(u, position) == Inner(u, position) \in u.inner_first_valid_position .. u.length

\* AZ_ERROR_ITEM_NOT_FOUND leaves the instance as it is.
set_position(u, position) ==
  IF Reaches(u, position) THEN [u EXCEPT !.inner_current_position = Inner(u, position)] ELSE u

reset(u) == [u EXCEPT !.inner_current_position = u.inner_first_valid_position]

get_remaining_size(u) == Wrap(u.length - u.inner_current_position)

get_position(u) == Wrap(u.inner_current_position + u.offset_diff)

\* Only what was read can be released, and only once.
Releasable(u, position) ==
  Inner(u, position) \in u.inner_first_valid_position .. u.inner_current_position - 1

release(u, position) ==
  IF Releasable(u, position)
  THEN [u EXCEPT !.inner_first_valid_position = Inner(u, position) + 1] ELSE u

Clonable(u, offset) == offset <= UINT32_MAX - u.length

clone(u, offset) ==
  [u EXCEPT !.inner_first_valid_position = u.inner_current_position,
            !.offset_diff = Wrap(offset - u.inner_current_position)]

\* How many bytes a read into a buffer of n bytes copies; none at the end.
CopySize(u, n) ==
  IF u.inner_current_position >= u.length THEN 0
  ELSE IF n < get_remaining_size(u) THEN n ELSE get_remaining_size(u)

Advance(u, n) == [u EXCEPT !.inner_current_position = @ + n]
=============================================================================
