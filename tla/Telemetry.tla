------------------------------ MODULE Telemetry ------------------------------
(***************************************************************************)
(* The sample ipc_telemetry on top of module Ipc: a producer with a thread *)
(* per sensor that calls back whoever subscribed, and main, which runs the *)
(* consumer: it subscribes through the IPC, unsubscribes, does both again  *)
(* and then takes the producer down.  Nothing orders the accesses to the   *)
(* subscriptions by the threads of the sensors and by main.                *)
(***************************************************************************)
EXTENDS Ipc, Sequences

CONSTANTS
  main, sensors_1, consumer,    \* the thread, the descriptor, the consumer's handle
  Sensors                       \* temperature and accelerometer

ASSUME TelemetryAssumption ==
  /\ Threads = {main} /\ Clients = {consumer}
  /\ PublishedByUser = {sensors_1} /\ Version[sensors_1] # AnyVersion
  /\ Forever \in WaitOptions
  /\ Sensors = {"temperature", "accelerometer"}
  \* the consumer asks for the producer's package, and a slot is left for it
  /\ Request[consumer] = [family |-> Family[sensors_1], version |-> AnyVersion]
  /\ \A d \in OwnedSet : Family[d] # Family[sensors_1]
  /\ DOMAIN Owned # Slots

NULL == "NULL"
Callback == "callback"          \* the consumer's callback for the sensor

VARIABLES
  step,             \* where main is
  callback,         \* sensor -> cb.<sensor>_subscription.callback
  thread,           \* sensor -> where its thread is
  end_thread,
  late              \* sensor -> telemetries sent since the consumer unsubscribed

sampleVars == <<step, callback, thread, end_thread, late>>
telemetryVars == <<vars, sampleVars>>

\* A callback through NULL is undefined: here the program stops.
Running == \A s \in Sensors : thread[s] # "crashed"

-----------------------------------------------------------------------------
(***************************************************************************)
(* The threads of the sensors: read_and_notify_temperature and its twin.   *)
(***************************************************************************)

\* Mutant: the thread does not look.
Subscribed_Assumed(s) == TRUE
Subscribed(s) == callback[s] # NULL

CheckEnd(s) ==
  /\ thread[s] = "loop"
  /\ thread' = [thread EXCEPT ![s] = IF end_thread THEN "ended" ELSE "test"]
  /\ UNCHANGED <<vars, step, callback, end_thread, late>>

Test(s) ==
  /\ thread[s] = "test"
  /\ thread' = [thread EXCEPT ![s] = IF Subscribed(s) THEN "notify" ELSE "loop"]
  /\ UNCHANGED <<vars, step, callback, end_thread, late>>

\* The callback may have gone since the test: the build uses the pointer it tested,
\* or reads it again.
Notify(s) ==
  /\ thread[s] = "notify"
  /\ \/ /\ thread' = [thread EXCEPT ![s] = "loop"]
        /\ late' = [late EXCEPT ![s] = IF callback[s] = NULL THEN @ + 1 ELSE 0]
     \/ /\ callback[s] = NULL
        /\ thread' = [thread EXCEPT ![s] = "crashed"]
        /\ UNCHANGED late
  /\ UNCHANGED <<vars, step, callback, end_thread>>

SensorStep(s) == Running /\ (CheckEnd(s) \/ Test(s) \/ Notify(s))

-----------------------------------------------------------------------------
(***************************************************************************)
(* main: calls of four functions, one after the other.                     *)
(***************************************************************************)
Do(function, op, s) == [function |-> function, op |-> op, sensor |-> s]

Create(n) ==
  << Do(<<"my_consumer_create", n>>, "get", "none"),
     Do(<<"my_consumer_create", n>>, "subscribe", "temperature"),
     Do(<<"my_consumer_create", n>>, "subscribe", "accelerometer") >>

Destroy(n) ==
  << Do(<<"my_consumer_destroy", n>>, "unsubscribe", "temperature"),
     Do(<<"my_consumer_destroy", n>>, "unsubscribe", "accelerometer"),
     Do(<<"my_consumer_destroy", n>>, "release", "none") >>

Script ==
  << Do(<<"sensors_1_create", 1>>, "publish", "none"),
     Do(<<"sensors_1_create", 1>>, "thread_create", "temperature"),
     Do(<<"sensors_1_create", 1>>, "thread_create", "accelerometer") >>
  \o Create(1) \o Destroy(1) \o Create(2) \o Destroy(2)
  \o << Do(<<"sensors_1_destroy", 1>>, "end_thread", "none"),
        Do(<<"sensors_1_destroy", 1>>, "join", "temperature"),
        Do(<<"sensors_1_destroy", 1>>, "join", "accelerometer"),
        Do(<<"sensors_1_destroy", 1>>, "unpublish", "none") >>

At(op) == phase = "up" /\ Running /\ step <= Len(Script) /\ Script[step].op = op
Sensor == Script[step].sensor
Advance == step' = step + 1

\* An error ends the function, whatever it had still to do.
Throw ==
  step' = CHOOSE n \in step + 1 .. Len(Script) :
            /\ Script[n].function # Script[step].function
            /\ \A k \in step .. n - 1 : Script[k].function = Script[step].function

InitIpc ==
  /\ ipc_init \/ publish_ipc_owned_interfaces(main) \/ InitDone
  /\ UNCHANGED sampleVars

publish ==
  /\ At("publish")
  /\ az_ulib_ipc_publish(main, sensors_1)
  /\ Advance
  /\ UNCHANGED <<callback, thread, end_thread, late>>

thread_create ==
  /\ At("thread_create")
  /\ thread' = [thread EXCEPT ![Sensor] = "loop"]
  /\ Advance
  /\ UNCHANGED <<vars, callback, end_thread, late>>

get ==
  /\ At("get")
  /\ try_get_interface(consumer)
  /\ IF holding'[consumer] THEN Advance ELSE Throw
  /\ UNCHANGED <<callback, thread, end_thread, late>>

subscribe ==
  /\ At("subscribe") /\ CallTarget(consumer) = sensors_1
  /\ IF callback[Sensor] = NULL
     THEN /\ callback' = [callback EXCEPT ![Sensor] = Callback]
          /\ late' = [late EXCEPT ![Sensor] = 0]
          /\ Advance
     ELSE /\ Throw                                \* AZ_ERROR_NOT_ENOUGH_SPACE
          /\ UNCHANGED <<callback, late>>
  /\ UNCHANGED <<vars, thread, end_thread>>

\* Mutants: another callback is looked for; the callback is left there.
IsSubscriber_Other(s) == callback[s] = NULL
IsSubscriber(s) == callback[s] = Callback
Cleared_Not(s) == callback
Cleared(s) == [callback EXCEPT ![s] = NULL]

unsubscribe ==
  /\ At("unsubscribe") /\ CallTarget(consumer) = sensors_1
  /\ IF IsSubscriber(Sensor)
     THEN callback' = Cleared(Sensor) /\ Advance
     ELSE UNCHANGED callback /\ Throw             \* AZ_ERROR_ITEM_NOT_FOUND
  /\ UNCHANGED <<vars, thread, end_thread, late>>

release ==
  /\ At("release")
  /\ release_interface(consumer)
  /\ Advance
  /\ UNCHANGED <<callback, thread, end_thread, late>>

sensors_1_destroy ==
  /\ \/ At("end_thread") /\ end_thread' = TRUE
     \/ At("join") /\ thread[Sensor] = "ended" /\ UNCHANGED end_thread
  /\ Advance
  /\ UNCHANGED <<vars, callback, thread, late>>

unpublish ==
  /\ At("unpublish")
  /\ \/ /\ FindToUnpublish(main, sensors_1, Forever)
        /\ UNCHANGED step
     \/ /\ Poll(main)
        /\ IF pc'[main] = "idle" THEN Advance ELSE UNCHANGED step
  /\ UNCHANGED <<callback, thread, end_thread, late>>

MainStep ==
  \/ InitIpc
  \/ publish
  \/ thread_create
  \/ get
  \/ subscribe
  \/ unsubscribe
  \/ release
  \/ sensors_1_destroy
  \/ unpublish

TelemetryInit ==
  /\ Init
  /\ step = 1 /\ end_thread = FALSE
  /\ callback = [s \in Sensors |-> NULL]
  /\ thread = [s \in Sensors |-> "off"]
  /\ late = [s \in Sensors |-> 0]

TelemetryNext == MainStep \/ \E s \in Sensors : SensorStep(s)

\* Every thread is scheduled, and its sleeps end.
TelemetrySpec ==
  /\ TelemetryInit /\ [][TelemetryNext]_telemetryVars
  /\ WF_telemetryVars(MainStep)
  /\ \A s \in Sensors : WF_telemetryVars(SensorStep(s))

-----------------------------------------------------------------------------
(***************************************************************************)
(* Properties.                                                             *)
(***************************************************************************)

\* After unsubscribe a consumer is called back once more at most: by the thread that
\* had found it subscribed.
AtMostOneLate == \A s \in Sensors : late[s] <= 1

\* main is in function f for the n-th time, or just about to call it.
Function == IF step <= Len(Script) THEN Script[step].function[1] ELSE "return"
AtStart == step = 1 \/ Script[step].function # Script[step - 1].function

\* No call of the sample takes an error path: between my_consumer_create and
\* my_consumer_destroy the consumer holds the interface and both subscriptions,
\* whatever a sensor was doing when they were taken; outside it has none of them.
SubscribedWhileHeld ==
  step <= Len(Script) /\ AtStart =>
    LET in == Function = "my_consumer_destroy" IN
    /\ holding[consumer] = in
    /\ \A s \in Sensors : (callback[s] = Callback) = in

\* The producer comes down: its threads end, the consumer has released, the unpublish
\* that waits forever returns; unless a callback through NULL came first.
ProgramEnds == <>(step > Len(Script) \/ ~Running)
=============================================================================
