--------------------------- MODULE HardwareUpdate ---------------------------
(***************************************************************************)
(* The sample ipc_hardware_update on top of module Ipc: a thread animates  *)
(* "the" contoso display while main exchanges the display under it, from   *)
(* 20x4 to 48x4 and back, without telling the consumer.                    *)
(***************************************************************************)
EXTENDS Ipc, Sequences

CONSTANTS
  main, display,                    \* the thread, and the handle of the consumer
  contoso_200401, contoso_480401

Displays == {contoso_200401, contoso_480401}
MAX_X == [d \in Displays |-> IF d = contoso_200401 THEN 20 ELSE 48]
MAX_Y == 4

ASSUME HardwareAssumption ==
  /\ Threads = {main} /\ Clients = {display}
  /\ PublishedByUser = Displays
  \* the package the consumer asks for
  /\ \A d \in Descriptors : Family[d] = Request[display].family => d \in Displays
  /\ Forever \in WaitOptions

VARIABLES
  step,         \* where main is
  consumer,     \* where the thread of the consumer is
  state,        \* the frame it draws next
  todo,         \* the calls left of the frame it is drawing
  max_x,        \* what the display said of itself
  end_thread,
  mem           \* display -> line -> column -> what is there

sampleVars == <<step, consumer, state, todo, max_x, end_thread, mem>>
hardwareVars == <<vars, sampleVars>>

-----------------------------------------------------------------------------
(***************************************************************************)
(* The producers.  A character is <<text, position in the text>>.          *)
(***************************************************************************)
Blank == << <<" ">>, 0 >>
Zero == << <<"NUL">>, 0 >>

Filled(d, character) ==
  [y \in 0 .. MAX_Y - 1 |-> [x \in 0 .. MAX_X[d] - 1 |-> character]]

\* A text that begins left of the display loses its beginning, one that goes on
\* right of it its end.
display_1_print(d, lines, in) ==
  LET cut == IF in.x < 0 THEN -in.x ELSE 0
      pos_x == in.x + cut
  IN IF in.y \in DOMAIN lines /\ cut <= in.size
     THEN [lines EXCEPT ![in.y] =
             [x \in DOMAIN @ |-> IF x \in pos_x .. in.x + in.size - 1
                                   THEN <<in.text, x - in.x>> ELSE @[x]]]
     ELSE lines

\* What a call changes in the memory of the display.
display_1(d, lines, in) ==
  CASE in.command = "cls" -> Filled(d, Blank)
    [] in.command = "print" -> display_1_print(d, lines, in)
    [] OTHER -> lines

-----------------------------------------------------------------------------
(***************************************************************************)
(* The consumer.                                                           *)
(***************************************************************************)
print_single_line(x, y, text, size) ==
  [command |-> "print", x |-> x, y |-> y, text |-> text, size |-> size]
Command(command) == [command |-> command]

Welcome(width) ==
  << Command("cls"), print_single_line(0, 0, <<"contoso">>, 7),
     print_single_line(0, 1, <<"Dimensions", width>>, 15),
     print_single_line(0, 3, <<"Hello world! This is a display test...">>, 38) >>
EarsUp == print_single_line(6, 1, <<"(\\(\\">>, 4)
EarsDown == print_single_line(6, 1, <<"/)/)">>, 4)
Bunny ==
  << Command("cls"), EarsUp, print_single_line(5, 2, <<"( -.-)">>, 6),
     print_single_line(5, 3, <<"o_(\")(\")">>, 8) >>

\* The calls of a frame up to invalidate, and the frame that follows it.
Frame(s, width) ==
  CASE s = 0 -> Welcome(width)
    [] s = 1 -> Bunny
    [] s = 2 -> << EarsDown >>
    [] s = 3 -> << EarsUp >>
NextFrame == [s \in 0..3 |-> <<1, 2, 3, 2>>[s + 1]]

\* try_get_interface says AZ_ULIB_RENEW, and the animation begins again.
\* Mutant: AZ_ULIB_RENEW is taken for AZ_OK.
Renewed_Never == FALSE
Renewed == ~HandleIsCurrent(display)

Check ==
  /\ consumer = "check"
  /\ consumer' = IF end_thread THEN "ended" ELSE "get"
  /\ UNCHANGED <<vars, step, state, todo, max_x, end_thread, mem>>

\* Without an interface the thread sleeps and tries again.
Get ==
  /\ consumer = "get"
  /\ try_get_interface(display)
  /\ IF TryGetResult(display) = "AZ_OK"
     THEN /\ state' = IF Renewed THEN 0 ELSE state
          /\ consumer' = IF state' = 0 THEN "measure" ELSE "draw"
          /\ todo' = Frame(state', max_x)
     ELSE /\ consumer' = "check"
          /\ UNCHANGED <<state, todo>>
  /\ UNCHANGED <<step, max_x, end_thread, mem>>

Measure ==
  /\ consumer = "measure"
  /\ max_x' = MAX_X[CallTarget(display)]
  /\ todo' = Frame(0, max_x')
  /\ consumer' = "draw"
  /\ UNCHANGED <<vars, step, state, end_thread, mem>>

Draw ==
  LET d == CallTarget(display) IN
  /\ consumer = "draw" /\ todo # << >>
  /\ mem' = [mem EXCEPT ![d] = display_1(d, @, Head(todo))]
  /\ todo' = Tail(todo)
  /\ UNCHANGED <<vars, step, consumer, state, max_x, end_thread>>

\* invalidate shows the memory.
Invalidate ==
  /\ consumer = "draw" /\ todo = << >>
  /\ state' = NextFrame[state]
  /\ consumer' = "release"
  /\ UNCHANGED <<vars, step, todo, max_x, end_thread, mem>>

Release ==
  /\ consumer = "release"
  /\ release_interface(display)
  /\ consumer' = "check"
  /\ UNCHANGED <<step, state, todo, max_x, end_thread, mem>>

ConsumerStep == Check \/ Get \/ Measure \/ Draw \/ Invalidate \/ Release

-----------------------------------------------------------------------------
(***************************************************************************)
(* main.                                                                   *)
(***************************************************************************)
Create(d) == [op |-> "create", d |-> d]
Destroy(d) == [op |-> "destroy", d |-> d]

Script ==
  << Create(contoso_200401), [op |-> "my_consumer_create"], Destroy(contoso_200401),
     Create(contoso_480401), Destroy(contoso_480401),
     Create(contoso_200401), Destroy(contoso_200401), [op |-> "my_consumer_destroy"] >>

At(op) == phase = "up" /\ step <= Len(Script) /\ Script[step].op = op
Advance == step' = step + 1

InitIpc ==
  /\ ipc_init \/ publish_ipc_owned_interfaces(main) \/ InitDone
  /\ UNCHANGED sampleVars

contoso_display_create ==
  /\ At("create")
  /\ az_ulib_ipc_publish(main, Script[step].d)
  /\ Advance
  /\ UNCHANGED <<consumer, state, todo, max_x, end_thread, mem>>

contoso_display_destroy ==
  /\ At("destroy") /\ pc[main] = "idle"
  /\ FindToUnpublish(main, Script[step].d, Forever)
  /\ UNCHANGED sampleVars

\* The unpublish goes on until nobody holds the display.
Unpublish ==
  /\ At("destroy")
  /\ Poll(main)
  /\ IF pc'[main] = "idle" THEN Advance ELSE UNCHANGED step
  /\ UNCHANGED <<consumer, state, todo, max_x, end_thread, mem>>

my_consumer_create ==
  /\ At("my_consumer_create")
  /\ consumer' = "check"
  /\ Advance
  /\ UNCHANGED <<vars, state, todo, max_x, end_thread, mem>>

\* end_thread, then the join.
my_consumer_destroy ==
  /\ At("my_consumer_destroy")
  /\ \/ ~end_thread /\ end_thread' = TRUE /\ UNCHANGED step
     \/ end_thread /\ consumer = "ended" /\ Advance /\ UNCHANGED end_thread
  /\ UNCHANGED <<vars, consumer, state, todo, max_x, mem>>

MainStep ==
  \/ InitIpc
  \/ contoso_display_create
  \/ contoso_display_destroy
  \/ Unpublish
  \/ my_consumer_create
  \/ my_consumer_destroy

HardwareInit ==
  /\ Init
  /\ step = 1 /\ consumer = "off" /\ state = 0 /\ todo = << >> /\ max_x = 0
  /\ end_thread = FALSE
  /\ mem = [d \in Displays |-> Filled(d, Zero)]

\* Both threads are scheduled, and their sleeps end.
HardwareSpec ==
  /\ HardwareInit /\ [][MainStep \/ ConsumerStep]_hardwareVars
  /\ WF_hardwareVars(MainStep) /\ WF_hardwareVars(ConsumerStep)

-----------------------------------------------------------------------------
(***************************************************************************)
(* Properties.                                                             *)
(***************************************************************************)
Picture(d, calls) ==
  LET lines[n \in 0..Len(calls)] ==
        IF n = 0 THEN Filled(d, Zero) ELSE display_1(d, lines[n - 1], calls[n])
  IN lines[Len(calls)]

Pictures(d) ==
  {Picture(d, calls) : calls \in {Welcome(MAX_X[d]), Bunny, Append(Bunny, EarsDown)}}

\* Whenever a display is told to show its memory, it shows one of the pictures of
\* the animation, drawn for its own size: no frame is spread over two displays, and
\* no frame that only moves the ears is drawn on a display without the bunny.
PicturesAreWhole ==
  consumer = "draw" /\ todo = << >> =>
    /\ CallTarget(display) \in Displays
    /\ mem[CallTarget(display)] \in Pictures(CallTarget(display))

\* Every display comes out of the system while the consumer is drawing all the time,
\* and in the end both threads have ended.
ProgramEnds == <>(step > Len(Script) /\ consumer = "ended")
=============================================================================
