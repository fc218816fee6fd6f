------------------------------ MODULE SctCalls ------------------------------
(***************************************************************************)
(* Any sequence of calls of the functions of lib sct.c, on a timer that is *)
(* not clocked meanwhile.                                                  *)
(***************************************************************************)
EXTENDS Integers

CONSTANTS W,        \* values of a half of the counter
          MaxCalls  \* calls in a behaviour

Timer == INSTANCE Sct

VARIABLES sct,   \* the registers of the timer
          n,     \* calls so far
          call,  \* the last call: name, suffix, outputs, argument
          told,  \* for each half: what start, stop or halt last told it
          whole  \* the counter as sct_set_counter left it

vars == <<sct, n, call, told, whole>>

Suffixes == {"", "l", "h"}
Modes    == {"up", "bidir_up", "bidir_down"}
Pairs(A) == {Timer!Pair(a, b) : a \in A, b \in A}

Call(name, suffix, outputs, arg) ==
  /\ n < MaxCalls
  /\ n' = n + 1
  /\ call' = [name |-> name, suffix |-> suffix, outputs |-> outputs, arg |-> arg]

Init ==
  /\ sct = Timer!Reset /\ n = 0
  /\ call = [name |-> "reset", suffix |-> "", outputs |-> {}, arg |-> 0]
  /\ told = Timer!Pair("halt", "halt") /\ whole = 0

-----------------------------------------------------------------------------
Run(suffix) ==
  /\ Call("run", suffix, {}, 0)
  /\ \/ sct' = Timer!sct_start_counter(sct, suffix) /\ told' = [told EXCEPT ![Timer!Half(suffix)] = "run"]
     \/ sct' = Timer!sct_stop_counter(sct, suffix) /\ told' = [told EXCEPT ![Timer!Half(suffix)] = "stop"]
     \/ sct' = Timer!sct_halt_counter(sct, suffix) /\ told' = [told EXCEPT ![Timer!Half(suffix)] = "halt"]
  /\ UNCHANGED whole

Mode(suffix, mode) ==
  /\ Call("mode", suffix, {}, mode)
  /\ sct' = Timer!sct_set_counter_mode(sct, suffix, mode)
  /\ UNCHANGED <<told, whole>>

\* The value that the functions for the high half take is that half's.
Count(suffix, v) ==
  /\ Call("count", suffix, {}, 0)
  /\ sct' = Timer!sct_set_counter(sct, suffix,
              IF suffix = "" THEN Timer!Split(v) ELSE Timer!Pair(v % W, v % W))
  /\ whole' = CASE suffix = ""  -> v
                [] suffix = "l" -> W * (whole \div W) + (v % W)
                [] suffix = "h" -> W * (v % W) + (whole % W)
  /\ UNCHANGED told

Clear(suffix) ==
  /\ Call("clear", suffix, {}, 0)
  /\ sct' = Timer!sct_clear_counter(sct, suffix)
  /\ whole' = IF suffix = "h" THEN whole % W ELSE W * (whole \div W)
  /\ UNCHANGED told

Masks(suffix, events) ==
  /\ Call("masks", suffix, {}, 0)
  /\ \/ sct' = Timer!sct_set_limit(sct, suffix, events)
     \/ sct' = Timer!sct_set_halt(sct, suffix, events)
     \/ sct' = Timer!sct_set_stop(sct, suffix, events)
     \/ sct' = Timer!sct_set_start(sct, suffix, events)
     \/ sct' = Timer!sct_enable_capture(sct, suffix, events)
     \/ sct' = Timer!sct_disable_capture(sct, suffix, events)
     \/ sct' = Timer!sct_set_state(sct, suffix, Timer!Pair(1, 2))
  /\ UNCHANGED <<told, whole>>

Outputs(outputs) ==
  /\ Call("outputs", "", outputs, 0)
  /\ \/ sct' = Timer!sct_enable_output_counter_control(sct, outputs)
     \/ sct' = Timer!sct_enable_output_counter_h_control(sct, outputs)
     \/ sct' = Timer!sct_disable_output_counter_control(sct, outputs)
  /\ UNCHANGED <<told, whole>>

Conflict(res, outputs) ==
  /\ Call("conflict", "", outputs, res)
  /\ sct' = Timer!sct_set_conflict_resolution(sct, res, outputs)
  /\ UNCHANGED <<told, whole>>

Interrupts(events, outputs) ==
  /\ Call("interrupts", "", {}, 0)
  /\ \/ sct' = Timer!sct_enable_interrupt(sct, events, outputs)
     \/ sct' = Timer!sct_disable_interrupt(sct, events, outputs)
  /\ UNCHANGED <<told, whole>>

Event(ev, x, r) ==
  /\ Call("event", x, {}, <<ev, r>>)
  /\ sct' = Timer!sct_setup_event(sct, ev, 0, 0,
       [half |-> x, comb |-> "match", cond |-> "low", states |-> {0}],
       {<<"capture", r, x>>, <<"stop", x>>}, 0)
  /\ UNCHANGED <<told, whole>>

Capture(x, r, events) ==
  /\ Call("capture", x, {}, 0)
  /\ sct' = Timer!sct_set_capture(sct, x, r, events)
  /\ UNCHANGED <<told, whole>>

Sets == Pairs({{}, {1}})

Next ==
  \/ \E x \in Suffixes : Run(x) \/ Clear(x)
  \/ \E x \in Suffixes, m \in Modes : Mode(x, m)
  \/ \E x \in Suffixes, v \in {1, W + 2} : Count(x, v)
  \/ \E x \in Suffixes, p \in Sets : Masks(x, p)
  \/ \E o \in {{0}, {0, 3}} : Outputs(o)
  \/ \E r \in 1 .. 2, o \in {{0}, {0, 3}} : Conflict(r, o)
  \/ \E e \in {{}, {1}}, o \in {{}, {0}} : Interrupts(e, o)
  \/ \E x \in Timer!Halves, r \in {0, 2} : Event(1, x, r)
  \/ \E x \in Timer!Halves : Capture(x, 2, {0, 1})

Spec == Init /\ [][Next]_vars

-----------------------------------------------------------------------------
(* Properties.                                                             *)

\* What the registers say of half x.  The match registers are left out:
\* SCT_EV_CAP2_H and SCT_EV_CAP3 are the same bit, so that the one marks
\* registers of both halves.
About(s, x) ==
  <<x \in s.stop, x \in s.halt, x \in s.down, x \in s.bidir, s.count[x], s.state[x],
    s.limit[x], s.haltmask[x], s.stopmask[x], s.startmask[x], s.regmode[x], s.reload[x]>>

\* A function for one half leaves the other one alone, whatever was called
\* before (sct.c:27-327).
HalvesApart ==
  /\ call'.suffix = "l" => About(sct', "h") = About(sct, "h")
  /\ call'.suffix = "h" => About(sct', "l") = About(sct, "l")

\* A half of the counter runs, is stopped or is halted as the last of these
\* calls told it, never two at once (sct.c:69-136).
AsTold ==
  \A x \in Timer!Halves :
    told[x] = IF x \in sct.stop THEN (IF x \in sct.halt THEN "both" ELSE "stop")
              ELSE IF x \in sct.halt THEN "halt" ELSE "run"

\* A counter that counts up does not go on counting down, whatever mode it
\* was in before (sct.c:138-202).
UpCountsUp ==
  call.name = "mode" /\ call.arg = "up" =>
    Timer!Half(call.suffix) \notin sct.down \cup sct.bidir

\* The counter holds what was written to it through any of its three
\* registers, read back as 32 bits (sct.c:264-292).
CounterIsWhole == Timer!sct_get_counter(sct, "") = whole

\* "0x058 SCT_RES SCT conflict resolution register" (sct.h:67): the call that
\* sets it for some outputs sets it.
ResolutionIsSet ==
  call.name = "conflict" => \A o \in call.outputs : sct.res[o] = call.arg

=============================================================================
