---------------------------- MODULE SurgeWindow ----------------------------
(***************************************************************************)
(* What the surge score means, told without a ring buffer or counters:     *)
(*   FREQ    in how many of the last HistorySize clocks the signal was set *)
(*   CONSEC  for how many clocks in a row the signal has been set          *)
(*   COUNT   the value of the signal in this clock                         *)
(***************************************************************************)
EXTENDS Integers, FiniteSets

CONSTANTS HistorySize, Counts

VARIABLES
  kind,    \* the annotation of the design
  window,  \* window[k]: the signal k clocks ago (FREQ)
  streak,  \* clocks in a row the signal has been set (CONSEC)
  score

windowVars == <<kind, window, streak, score>>

Ones(w) == Cardinality({k \in 1 .. HistorySize : w[k] = 1})

Init ==
  /\ kind \in {"FREQ", "CONSEC", "COUNT"}
  /\ window = [k \in 1 .. HistorySize |-> 0]
  /\ streak = 0
  /\ score = 0

ObserveFreq(signal) ==
  /\ kind = "FREQ"
  /\ window' = [k \in 1 .. HistorySize |->
                  IF k = 1 THEN signal ELSE window[k - 1]]
  /\ score' = Ones(window')
  /\ UNCHANGED <<kind, streak>>

ObserveConsec(signal) ==
  /\ kind = "CONSEC"
  /\ streak' = IF signal = 1 THEN streak + 1 ELSE 0
  /\ score' = streak'
  /\ UNCHANGED <<kind, window>>

ObserveCount(signal) ==
  /\ kind = "COUNT"
  /\ score' = signal
  /\ UNCHANGED <<kind, window, streak>>

Next ==
  \/ \E signal \in {0, 1} : ObserveFreq(signal) \/ ObserveConsec(signal)
  \/ \E signal \in Counts : ObserveCount(signal)

Spec == Init /\ [][Next]_windowVars
=============================================================================
