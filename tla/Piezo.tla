------------------------------- MODULE Piezo -------------------------------
(***************************************************************************)
(* examples/.../piezo/piezo.c: SCT outputs 0 and 1 drive a piezo speaker   *)
(* with a square wave and its opposite.  An interrupt in every period      *)
(* counts the periods of a tone and sets up the next tone after a second.  *)
(***************************************************************************)
EXTENDS Integers, Sequences

CONSTANTS W,      \* values of a half of the counter
          PCLK,   \* bus clocks in a second (24000000)
          freq    \* the tones

Timer == INSTANCE Sct

VARIABLES sct,          \* the registers of the timer
          findex, count,
          isr,          \* next step of sct_isr(), or "none"
          tone,         \* what is heard: clocks of a period
          periods,      \* of this tone so far, counted up to MaxFreq + 1
          high          \* clocks of this period with output 0 high

vars == <<sct, findex, count, isr, tone, periods, high>>

-----------------------------------------------------------------------------
Match(s, n, v) == Timer!sct_set_match_and_reload(s, "", n, Timer!Split(v))
Reload(n, v) == sct' = Timer!sct_set_match_reload(sct, "", n, Timer!Split(v))

Op == [half |-> "l", comb |-> "match", cond |-> "low", states |-> {0}]
AtMatch(s, ev, n, action) == Timer!sct_setup_event(s, ev, n, 0, Op, {action}, 0)

\* Clocks in a period of tone n, counted from 0 as in the program.
Clocks(n) == PCLK \div freq[n + 1]

sct_setup ==
  LET a == Timer!sct_config(Timer!Reset, TRUE, {}, {"l"})
      b == Match(Match(Match(a, 0, Clocks(0) - 1), 1, 0), 2, Clocks(0) \div 2)
      c == AtMatch(AtMatch(b, 0, 1, <<"set", 0>>), 1, 2, <<"clr", 0>>)
      d == AtMatch(AtMatch(c, 2, 1, <<"clr", 1>>), 3, 2, <<"set", 1>>)
  IN  Timer!sct_start_counter(AtMatch(d, 4, 1, <<"int">>), "")

MaxFreq == CHOOSE f \in {freq[n] : n \in DOMAIN freq} :
             \A n \in DOMAIN freq : freq[n] <= f

Counter == Timer!Whole(sct.count)
Limit   == Timer!RegValue(sct, 0, "l")

Init ==
  /\ sct = sct_setup
  /\ findex = 0 /\ count = freq[1] /\ isr = "none"
  /\ tone = Clocks(0) /\ periods = 0 /\ high = 0

-----------------------------------------------------------------------------
\* One clock of the timer.  The handler, of some fifty instructions, ends
\* before the period does that it was entered in.
Clock ==
  /\ ~(Counter = Limit /\ (isr # "none" \/ 4 \in sct.evflag))
  /\ sct' = Timer!Tick(sct, {}, {})
  /\ high' = (IF Counter = 0 THEN 0 ELSE high) + (IF 0 \in sct'.out THEN 1 ELSE 0)
  /\ IF Counter = 0
       THEN /\ tone' = Limit + 1
            /\ periods' = IF tone' # tone THEN 1
                        ELSE IF periods > MaxFreq THEN periods ELSE periods + 1
       ELSE UNCHANGED <<tone, periods>>
  /\ UNCHANGED <<findex, count, isr>>

Pending == Timer!sct_get_interrupt_mask(sct, {4}) \cap Timer!sct_get_interrupt_status(sct, {4}) # {}

\* Mistake: the tone ends when the count has passed 0.
EnterLate ==
  /\ isr = "none" /\ Pending
  /\ IF count = 0
       THEN findex' = (findex + 1) % Len(freq) /\ isr' = "limit" /\ UNCHANGED count
       ELSE count' = count - 1 /\ isr' = "clear" /\ UNCHANGED findex
  /\ UNCHANGED <<sct, tone, periods, high>>

\* sct_isr(): a period of the tone has begun; at the last one, the next tone.
Enter ==
  /\ isr = "none" /\ Pending
  /\ count' = count - 1
  /\ IF count' = 0 THEN findex' = (findex + 1) % Len(freq) /\ isr' = "limit"
                   ELSE isr' = "clear" /\ UNCHANGED findex
  /\ UNCHANGED <<sct, tone, periods, high>>

IsrLimit ==
  /\ isr = "limit"
  /\ Reload(0, Clocks(findex) - 1)
  /\ isr' = "width"
  /\ UNCHANGED <<findex, count, tone, periods, high>>

IsrWidth ==
  /\ isr = "width"
  /\ count' = freq[findex + 1]
  /\ Reload(2, Clocks(findex) \div 2)
  /\ isr' = "clear"
  /\ UNCHANGED <<findex, tone, periods, high>>

IsrClear ==
  /\ isr = "clear"
  /\ sct' = Timer!sct_clear_interrupt(sct, {4}, {})
  /\ isr' = "none"
  /\ UNCHANGED <<findex, count, tone, periods, high>>

sct_isr == Enter \/ IsrLimit \/ IsrWidth \/ IsrClear

Next == Clock \/ sct_isr

Spec == Init /\ [][Next]_vars

\* The clock and the processor run.
FairSpec == Spec /\ WF_vars(Clock) /\ WF_vars(sct_isr)

-----------------------------------------------------------------------------
(* Properties.                                                             *)

\* "Duration (1 sec)": when the tone changes, the one before has been heard
\* for as many periods as there are in a second (piezo.c:87-88, 130-131).
FullSecond ==
  tone' # tone => \E n \in DOMAIN freq :
                    /\ tone = Clocks(n - 1) /\ periods = freq[n]
                    /\ tone' = Clocks(n % Len(freq))

\* "Match2: high threshold (duty 50%)": the two halves of every period are as
\* long as each other, but for an odd clock, also when the tone changes
\* (piezo.c:93-94, 133-134).
HalfAndHalf == Counter = 0 /\ periods > 0 => high = tone \div 2

\* The two sides of the speaker are driven against each other from the first
\* clock on (piezo.c:96-110).
Opposite == periods > 0 => (0 \in sct.out) # (1 \in sct.out)
=============================================================================
