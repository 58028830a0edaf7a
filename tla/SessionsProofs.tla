--------------------------- MODULE SessionsProofs ---------------------------
(***************************************************************************)
(* Campaigns do not disturb each other, for any number of processes, rows, *)
(* clocks and segments.  The invariant has three parts: the types, who     *)
(* owns which segment and which simulator (Ownership), and what a running  *)
(* simulator has marked so far (Marks).                                    *)
(***************************************************************************)
EXTENDS Sessions, DataLemmas

Points == (Rows \X Wirebits) \cup (Rows \X SUBSET Wirebits)

Simulators == [owner : Process, cov : Ids \cup {None},
               init : Wires \cup {None}, trace : Seq(Wires)]

Types ==
  /\ method \in Methods
  /\ phase \in [Process -> Phases]
  /\ segments \subseteq [id : Ids, owner : Process, name : Names]
  /\ IsFiniteSet(segments)
  /\ memory \in [Ids -> SUBSET Points]
  /\ env \in [Process -> [Names -> Ids \cup {None}]]
  /\ bitmap \in [Process -> SUBSET Points]
  /\ run \in [Process -> Nat]
  /\ sims \subseteq Simulators
  /\ \A s \in sims : Len(s.trace) <= MaxClocks

Segment(p, n, i) == [id |-> i, owner |-> p, name |-> n]

(* No two segments share an id. *)
OwnIds == \A g \in segments, h \in segments : g.id = h.id => g = h

(* Who may have left a segment. *)
OwnersLeft == \A g \in segments : phase[g.owner] \in Alive \cup {"exited", "killed"}

(* A process that is alive has the segments it has told of. *)
EnvIsTrue ==
  \A p \in Process : phase[p] \in Alive => \A n \in Names :
    env[p][n] # None => Segment(p, n, env[p][n]) \in segments

EnvIsSet ==
  \A p \in Process :
    /\ phase[p] = "unborn" => \A n \in Names : env[p][n] = None
    /\ phase[p] \in Alive /\ method # "blackbox" => env[p]["FUZZ_BITMAP"] # None

(* A simulator belongs to a process that waits for it or was killed, and
   writes to the segment of that process. *)
SimsAreOwned ==
  \A s \in sims :
    /\ phase[s.owner] \in {"running", "killed"}
    /\ method # "blackbox" => Segment(s.owner, "FUZZ_BITMAP", s.cov) \in segments
    /\ phase[s.owner] = "running" => s.cov = env[s.owner]["FUZZ_BITMAP"]

OneSimEach ==
  /\ \A s \in sims, t \in sims : s.owner = t.owner => s = t
  /\ \A p \in Process : phase[p] = "running" => \E s \in sims : s.owner = p

Ownership ==
  OwnIds /\ OwnersLeft /\ EnvIsTrue /\ EnvIsSet /\ SimsAreOwned /\ OneSimEach

Marks ==
  \A s \in sims :
    /\ s.trace = <<>> => s.init = None
    /\ s.trace # <<>> => s.init = s.trace[1]
    /\ phase[s.owner] = "running" /\ method # "blackbox" =>
         memory[s.cov] = CoveredBy(s.trace)

SessionInv == Types /\ Ownership /\ Marks

----------------------------------------------------------------------------
(* LEMMAS ABOUT THE OPERATORS                                              *)

(* The empty value is neither an id nor a value of the wires. *)
LEMMA NoneIsNoId == None \notin Ids /\ None \notin Wires
  BY SessionAssumption DEF Ids

(* shmget finds an id that is not taken while there is room. *)
LEMMA FreshIsFresh ==
  ASSUME Types, HasRoom, NEW n
  PROVE  FreshSegment(n) \in Ids /\ \A g \in segments : g.id # FreshSegment(n)
  <1> DEFINE T == {g.id : g \in segments}
             f == [g \in segments |-> g.id]
  <1>1. f \in Surjection(segments, T)
    BY DEF Surjection
  <1>2. IsFiniteSet(segments) /\ Cardinality(segments) \in Nat
    BY FS_CardinalityType DEF Types
  <1>3. IsFiniteSet(T) /\ Cardinality(T) <= Cardinality(segments)
    BY <1>1, <1>2, FS_Surjection
  <1>4. IsFiniteSet(T) /\ Cardinality(T) \in Nat
    BY <1>3, FS_CardinalityType
  <1>5. Cardinality(Ids) = MaxSegments /\ IsFiniteSet(Ids)
    <2>1. MaxSegments \in Nat
      BY SessionAssumption
    <2> QED  BY <2>1, FS_Interval DEF Ids
  <1>6. ~(Ids \subseteq T)
    <2> SUFFICES ASSUME Ids \subseteq T PROVE FALSE
      OBVIOUS
    <2>1. Cardinality(Ids) <= Cardinality(T)
      BY <1>3, FS_Subset
    <2>2. MaxSegments \in Nat
      BY SessionAssumption
    <2> HIDE DEF T, f
    <2> QED  BY <1>2, <1>3, <1>4, <1>5, <2>1, <2>2 DEF HasRoom
  <1>7. \E i \in Ids : \A g \in segments : g.id # i
    BY <1>6
  <1> QED  BY <1>7 DEF FreshSegment

(* What the allocation of a segment does. *)
LEMMA SetupShmProperties ==
  ASSUME Types, NEW p \in Process, NEW n \in Names, SetupShm(p, n)
  PROVE  \E i \in Ids :
           /\ \A g \in segments : g.id # i
           /\ segments' = segments \cup {Segment(p, n, i)}
           /\ IsFiniteSet(segments')
           /\ memory' = [memory EXCEPT ![i] = {}]
           /\ env' = [env EXCEPT ![p][n] = i]
  <1> DEFINE i == FreshSegment(n)
  <1>1. i \in Ids /\ \A g \in segments : g.id # i
    BY FreshIsFresh DEF SetupShm
  <1>2. /\ segments' = segments \cup {Segment(p, n, i)}
        /\ memory' = [memory EXCEPT ![i] = {}]
        /\ env' = [env EXCEPT ![p][n] = i]
    BY DEF SetupShm, Segment
  <1>3. IsFiniteSet(segments')
    BY <1>2, FS_AddElement DEF Types
  <1> HIDE DEF i
  <1> QED  BY <1>1, <1>2, <1>3

(* A clock marks points of the rows. *)
LEMMA MarkedIsPoints ==
  ASSUME NEW m \in Methods, NEW init \in Wires, NEW wire \in Wires
  PROVE  Marked(m, init, wire) \subseteq Points
  <1>1. CASE m \in {"rfuzz", "directfuzz"}
    BY <1>1 DEF Marked, Points, SymmetricDifference, Wires
  <1>2. CASE m = "difuzzrtl"
    BY <1>2 DEF Marked, Points, Wires
  <1>3. CASE m = "blackbox"
    BY <1>3 DEF Marked
  <1> QED  BY <1>1, <1>2, <1>3 DEF Methods

(* The first clock that is latched is a value of the wires. *)
LEMMA LatchedIsWire ==
  ASSUME NEW s \in Simulators, NEW wire \in Wires
  PROVE  Latched(s, wire) \in Wires
  BY DEF Latched, Simulators

(* One clock more covers what the driver marks in it. *)
LEMMA CoveredByOneMore ==
  ASSUME method \in Methods, NEW trace \in Seq(Wires), NEW wire \in Wires,
         NEW init \in Wires, trace # <<>> => init = trace[1],
         trace = <<>> => init = wire
  PROVE  CoveredBy(Append(trace, wire)) = CoveredBy(trace) \cup Marked(method, init, wire)
  <1> DEFINE longer == Append(trace, wire)
  <1>1. /\ Len(trace) \in Nat /\ Len(longer) = Len(trace) + 1
        /\ DOMAIN trace = 1 .. Len(trace) /\ DOMAIN longer = 1 .. (Len(trace) + 1)
        /\ \A i \in DOMAIN trace : longer[i] = trace[i]
        /\ longer[Len(trace) + 1] = wire
    OBVIOUS
  <1>2. longer[1] = init /\ Len(trace) + 1 \in DOMAIN longer
    <2>1. CASE trace = <<>>
      BY <1>1, <2>1
    <2>2. CASE trace # <<>>
      <3>1. 1 \in DOMAIN trace
        BY <1>1, <2>2
      <3> QED  BY <1>1, <2>2, <3>1
    <2> QED  BY <2>1, <2>2
  <1>3. \A i \in DOMAIN longer : i = Len(trace) + 1 \/ i \in DOMAIN trace
    BY <1>1
  <1>4. \A i \in DOMAIN trace : i \in DOMAIN longer /\ trace # <<>>
    BY <1>1
  <1> HIDE DEF longer
  <1>5. CASE method \in {"rfuzz", "directfuzz"}
    <2> DEFINE Toggled(t) ==
          {pt \in Rows \X Wirebits : \E i \in DOMAIN t :
             ~(pt[2] \in t[i][pt[1]] <=> pt[2] \in t[1][pt[1]])}
    <2>1. CoveredBy(longer) = Toggled(longer) /\ CoveredBy(trace) = Toggled(trace)
      BY <1>5 DEF CoveredBy
    <2>2. Marked(method, init, wire) =
            {pt \in Rows \X Wirebits : ~(pt[2] \in wire[pt[1]] <=> pt[2] \in init[pt[1]])}
      BY <1>5 DEF Marked, SymmetricDifference, Wires
    <2>3. ASSUME NEW pt \in Rows \X Wirebits
          PROVE  pt \in Toggled(longer) <=>
                   \/ pt \in Toggled(trace)
                   \/ ~(pt[2] \in wire[pt[1]] <=> pt[2] \in init[pt[1]])
      <3>1. ASSUME pt \in Toggled(longer)
            PROVE  \/ pt \in Toggled(trace)
                   \/ ~(pt[2] \in wire[pt[1]] <=> pt[2] \in init[pt[1]])
        <4>1. PICK i \in DOMAIN longer :
                 ~(pt[2] \in longer[i][pt[1]] <=> pt[2] \in longer[1][pt[1]])
          BY <3>1
        <4>2. CASE i = Len(trace) + 1
          BY <1>1, <1>2, <4>1, <4>2
        <4>3. CASE i \in DOMAIN trace
          BY <1>1, <1>2, <1>4, <4>1, <4>3
        <4> QED  BY <1>3, <4>2, <4>3
      <3>2. ASSUME pt \in Toggled(trace) PROVE pt \in Toggled(longer)
        <4>1. PICK i \in DOMAIN trace :
                 ~(pt[2] \in trace[i][pt[1]] <=> pt[2] \in trace[1][pt[1]])
          BY <3>2
        <4> QED  BY <1>1, <1>2, <1>4, <4>1
      <3>3. ASSUME ~(pt[2] \in wire[pt[1]] <=> pt[2] \in init[pt[1]])
            PROVE  pt \in Toggled(longer)
        BY <1>1, <1>2, <3>3
      <3> QED  BY <3>1, <3>2, <3>3
    <2> QED  BY <2>1, <2>2, <2>3 DEF longer
  <1>6. CASE method = "difuzzrtl"
    <2> DEFINE States(t) == UNION {{<<r, t[i][r]>> : r \in Rows} : i \in DOMAIN t}
    <2>1. CoveredBy(longer) = States(longer) /\ CoveredBy(trace) = States(trace)
      BY <1>6 DEF CoveredBy
    <2>2. Marked(method, init, wire) = {<<r, wire[r]>> : r \in Rows}
      BY <1>6 DEF Marked
    <2>3. States(longer) \subseteq States(trace) \cup {<<r, wire[r]>> : r \in Rows}
      BY <1>1, <1>3
    <2>4. States(trace) \cup {<<r, wire[r]>> : r \in Rows} \subseteq States(longer)
      BY <1>1, <1>2, <1>4
    <2> QED  BY <2>1, <2>2, <2>3, <2>4 DEF longer
  <1>7. CASE method = "blackbox"
    BY <1>7 DEF CoveredBy, Marked
  <1> QED  BY <1>5, <1>6, <1>7 DEF Methods

(* Without a clock nothing is covered. *)
LEMMA NothingCovered == method \in Methods => CoveredBy(<<>>) = {}
  <1> SUFFICES ASSUME method \in Methods PROVE CoveredBy(<<>>) = {}
    OBVIOUS
  <1>1. DOMAIN <<>> = {}
    OBVIOUS
  <1>2. CASE method \in {"rfuzz", "directfuzz"}
    BY <1>1, <1>2 DEF CoveredBy
  <1>3. CASE method = "difuzzrtl"
    BY <1>1, <1>3 DEF CoveredBy
  <1>4. CASE method = "blackbox"
    BY <1>4 DEF CoveredBy
  <1> QED  BY <1>2, <1>3, <1>4 DEF Methods

(* What the fuzzer reads when its simulator has ended. *)
LEMMA LocalIsCovered ==
  ASSUME SessionInv, NEW p \in Process, phase[p] = "running"
  PROVE  \E s \in sims : /\ s.owner = p /\ Child(p) = {s}
                         /\ Local(p) = CoveredBy(s.trace)
  <1>1. PICK s \in sims : s.owner = p
    BY DEF SessionInv, Ownership, OneSimEach
  <1>2. Child(p) = {s}
    BY <1>1 DEF SessionInv, Ownership, OneSimEach, Child
  <1>3. CASE method = "blackbox"
    BY <1>1, <1>2, <1>3 DEF Local, CoveredBy
  <1>4. CASE method # "blackbox"
    <2>1. s.cov = env[p]["FUZZ_BITMAP"] /\ memory[s.cov] = CoveredBy(s.trace)
      BY <1>1, <1>4 DEF SessionInv, Ownership, SimsAreOwned, Marks
    <2> QED  BY <1>1, <1>2, <1>4, <2>1 DEF Local
  <1> QED  BY <1>3, <1>4

----------------------------------------------------------------------------
(* THE INVARIANT                                                           *)

(* No process, no segment. *)
LEMMA InitSessionInv == Init => SessionInv
  <1> SUFFICES ASSUME Init PROVE SessionInv
    OBVIOUS
  <1> USE DEF Init
  <1>1. Types
    BY FS_EmptySet DEF Types, Phases
  <1>2. Ownership
    BY DEF Ownership, OwnIds, OwnersLeft, EnvIsTrue, EnvIsSet, SimsAreOwned, OneSimEach, Alive
  <1> QED  BY <1>1, <1>2 DEF SessionInv, Marks

(* CoveredBy depends on the method alone. *)
LEMMA SameCover == method' = method => \A t : CoveredBy(t)' = CoveredBy(t)
  BY DEF CoveredBy

(* Steps that change the phase of a process and nothing else. *)
LEMMA PhaseStep ==
  ASSUME SessionInv, NEW p \in Process, NEW q \in {"idle", "exited", "killed"},
         phase' = [phase EXCEPT ![p] = q],
         phase[p] \in Alive \cup {"unborn"},
         phase[p] = "running" => q = "killed",
         phase[p] = "unborn" => q = "exited",
         UNCHANGED <<method, fuzz_dir, segments, memory, env, bitmap, run, sims, crashes>>
  PROVE  SessionInv'
  <1> USE DEF SessionInv
  <1>1. Types'
    BY DEF Types, Phases
  <1>2. /\ phase'[p] = q /\ \A r \in Process \ {p} : phase'[r] = phase[r]
        /\ q \notin {"unborn", "running"}
    BY DEF Types
  <1>3. OwnIds' /\ OwnersLeft'
    BY <1>2 DEF Ownership, OwnIds, OwnersLeft, Alive, Types
  <1>4. \A r \in Process : phase'[r] \in Alive => phase[r] \in Alive
    BY <1>2 DEF Alive
  <1>5. EnvIsTrue'
    BY <1>4 DEF Ownership, EnvIsTrue, Segment
  <1>6. EnvIsSet'
    BY <1>2, <1>4 DEF Ownership, EnvIsSet
  <1>7. \A r \in Process : phase'[r] = "running" => phase[r] = "running"
    BY <1>2
  <1>8. SimsAreOwned'
    <2> SUFFICES ASSUME NEW s \in sims
                 PROVE  /\ phase'[s.owner] \in {"running", "killed"}
                        /\ method # "blackbox" =>
                             Segment(s.owner, "FUZZ_BITMAP", s.cov) \in segments
                        /\ phase'[s.owner] = "running" => s.cov = env[s.owner]["FUZZ_BITMAP"]
      BY DEF SimsAreOwned, Segment
    <2>1. s.owner \in Process
      BY DEF Types, Simulators
    <2>2. phase[s.owner] \in {"running", "killed"}
      BY DEF Ownership, SimsAreOwned
    <2>3. s.owner = p => q = "killed"
      BY <2>2 DEF Alive
    <2> QED  BY <1>2, <1>7, <2>1, <2>2, <2>3 DEF Ownership, SimsAreOwned
  <1>9. OneSimEach'
    BY <1>7 DEF Ownership, OneSimEach
  <1>10. Marks'
    <2>1. \A s \in sims : s.owner \in Process
      BY DEF Types, Simulators
    <2> QED  BY <1>7, <2>1, SameCover DEF Marks
  <1> QED  BY <1>1, <1>3, <1>5, <1>6, <1>8, <1>9, <1>10 DEF Ownership

(* A process that is being set up allocates a segment. *)
LEMMA SetupStep ==
  ASSUME SessionInv, NEW p \in Process, NEW n \in Names, NEW q \in {"coverage", "surge"},
         phase[p] \in {"unborn", "coverage"},
         phase' = [phase EXCEPT ![p] = q],
         SetupShm(p, n),
         phase[p] = "unborn" => n = "FUZZ_BITMAP" \/ method = "blackbox",
         UNCHANGED <<method, fuzz_dir, bitmap, run, sims, crashes>>
  PROVE  SessionInv'
  <1> USE DEF SessionInv
  <1>1. PICK i \in Ids : /\ \A g \in segments : g.id # i
                         /\ segments' = segments \cup {Segment(p, n, i)}
                         /\ IsFiniteSet(segments')
                         /\ memory' = [memory EXCEPT ![i] = {}]
                         /\ env' = [env EXCEPT ![p][n] = i]
    BY SetupShmProperties
  <1>2. Segment(p, n, i) \in [id : Ids, owner : Process, name : Names]
    BY DEF Segment
  <1>3. /\ phase'[p] = q /\ \A r \in Process \ {p} : phase'[r] = phase[r]
        /\ phase[p] \notin {"running", "killed"}
    BY DEF Types
  <1>4. /\ env' \in [Process -> [Names -> Ids \cup {None}]]
        /\ env'[p][n] = i /\ \A m \in Names \ {n} : env'[p][m] = env[p][m]
        /\ \A r \in Process \ {p} : env'[r] = env[r]
    BY <1>1 DEF Types
  <1>5. Types'
    <2>1. memory' \in [Ids -> SUBSET Points]
      BY <1>1 DEF Types
    <2>2. phase' \in [Process -> Phases]
      BY DEF Types, Phases
    <2>3. segments' \subseteq [id : Ids, owner : Process, name : Names]
      BY <1>1, <1>2 DEF Types
    <2> QED  BY <1>1, <1>4, <2>1, <2>2, <2>3 DEF Types
  <1>6. OwnIds'
    BY <1>1 DEF Ownership, OwnIds, Segment
  <1>7. OwnersLeft'
    <2> SUFFICES ASSUME NEW g \in segments'
                 PROVE  phase'[g.owner] \in Alive \cup {"exited", "killed"}
      BY DEF OwnersLeft
    <2>1. g.owner \in Process
      BY <1>5 DEF Types
    <2>2. CASE g.owner = p
      BY <1>3, <2>2 DEF Alive
    <2>3. CASE g.owner # p
      <3>1. g \in segments
        BY <1>1, <2>3 DEF Segment
      <3> QED  BY <1>3, <2>1, <2>3, <3>1 DEF Ownership, OwnersLeft
    <2> QED  BY <2>2, <2>3
  <1>8. EnvIsTrue'
    <2> SUFFICES ASSUME NEW r \in Process, phase'[r] \in Alive, NEW m \in Names,
                        env'[r][m] # None
                 PROVE  Segment(r, m, env'[r][m]) \in segments'
      BY DEF EnvIsTrue, Segment
    <2>1. CASE r = p /\ m = n
      BY <1>1, <1>4, <2>1
    <2>2. CASE r = p /\ m # n
      <3>1. env[p][m] # None /\ env'[p][m] = env[p][m]
        BY <1>4, <2>2
      <3>2. phase[p] \in Alive
        BY <3>1 DEF Ownership, EnvIsSet, Alive
      <3> QED  BY <1>1, <2>2, <3>1, <3>2 DEF Ownership, EnvIsTrue
    <2>3. CASE r # p
      BY <1>1, <1>3, <1>4, <2>3 DEF Ownership, EnvIsTrue
    <2> QED  BY <2>1, <2>2, <2>3
  <1>9. EnvIsSet'
    <2> SUFFICES ASSUME NEW r \in Process
                 PROVE  /\ phase'[r] = "unborn" => \A m \in Names : env'[r][m] = None
                        /\ phase'[r] \in Alive /\ method # "blackbox" =>
                             env'[r]["FUZZ_BITMAP"] # None
      BY DEF EnvIsSet
    <2>1. CASE r # p
      BY <1>3, <1>4, <2>1 DEF Ownership, EnvIsSet
    <2>2. CASE r = p
      <3>1. phase'[r] # "unborn"
        BY <1>3, <2>2
      <3>2. ASSUME method # "blackbox" PROVE env'[p]["FUZZ_BITMAP"] # None
        <4>1. CASE n = "FUZZ_BITMAP"
          BY <1>4, <4>1, NoneIsNoId
        <4>2. CASE n # "FUZZ_BITMAP"
          <5>1. phase[p] \in Alive /\ "FUZZ_BITMAP" \in Names \ {n}
            BY <3>2, <4>2 DEF Alive, Names
          <5>2. env[p]["FUZZ_BITMAP"] # None
            BY <3>2, <5>1 DEF Ownership, EnvIsSet
          <5> QED  BY <1>4, <5>1, <5>2
        <4> QED  BY <4>1, <4>2
      <3> QED  BY <2>2, <3>1, <3>2
    <2> QED  BY <2>1, <2>2
  <1>10. \A s \in sims : s.owner \in Process \ {p} /\ phase'[s.owner] = phase[s.owner]
    <2>1. \A s \in sims : s.owner \in Process /\ phase[s.owner] \in {"running", "killed"}
      BY DEF Types, Simulators, Ownership, SimsAreOwned
    <2> QED  BY <1>3, <2>1
  <1>11. SimsAreOwned'
    BY <1>1, <1>4, <1>10 DEF Ownership, SimsAreOwned, Segment
  <1>12. OneSimEach'
    BY <1>3 DEF Ownership, OneSimEach
  <1>13. Marks'
    <2>1. ASSUME NEW s \in sims, method # "blackbox"
          PROVE  memory'[s.cov] = memory[s.cov]
      <3>1. Segment(s.owner, "FUZZ_BITMAP", s.cov) \in segments
        BY <2>1 DEF Ownership, SimsAreOwned
      <3>2. s.cov # i /\ s.cov \in Ids
        BY <1>1, <3>1 DEF Segment, Types
      <3> QED  BY <1>1, <3>2 DEF Types
    <2> QED  BY <1>10, <2>1, SameCover DEF Marks
  <1> QED  BY <1>5, <1>6, <1>7, <1>8, <1>9, <1>11, <1>12, <1>13 DEF Ownership

(* The first segment of a campaign. *)
LEMMA SetupCoverageKeeps ==
  ASSUME SessionInv, NEW p \in Process, SetupCoverage(p)
  PROVE  SessionInv'
  <1>1. /\ phase[p] = "unborn" /\ phase' = [phase EXCEPT ![p] = "coverage"]
        /\ UNCHANGED <<method, fuzz_dir, bitmap, run, sims, crashes>>
    BY DEF SetupCoverage
  <1>2. CASE method # "blackbox"
    BY <1>1, <1>2, SetupStep DEF SetupCoverage, Names
  <1>3. CASE method = "blackbox"
    <2> USE DEF SessionInv
    <2>1. UNCHANGED <<segments, memory, env>>
      BY <1>3 DEF SetupCoverage
    <2>2. /\ phase'[p] = "coverage" /\ \A r \in Process \ {p} : phase'[r] = phase[r]
      BY <1>1 DEF Types
    <2>3. Types'
      BY <1>1, <2>1 DEF Types, Phases
    <2>4. OwnIds' /\ OwnersLeft'
      BY <2>1, <2>2 DEF Ownership, OwnIds, OwnersLeft, Alive, Types
    <2>5. EnvIsTrue' /\ EnvIsSet'
      <3>1. \A n \in Names : env[p][n] = None
        BY <1>1 DEF Ownership, EnvIsSet
      <3> QED  BY <1>1, <1>3, <2>1, <2>2, <3>1 DEF Ownership, EnvIsTrue, EnvIsSet, Segment
    <2>6. \A s \in sims : s.owner \in Process \ {p} /\ phase'[s.owner] = phase[s.owner]
      <3>1. \A s \in sims : s.owner \in Process /\ phase[s.owner] \in {"running", "killed"}
        BY DEF Types, Simulators, Ownership, SimsAreOwned
      <3> QED  BY <1>1, <2>2, <3>1
    <2>7. SimsAreOwned' /\ OneSimEach' /\ Marks'
      BY <1>1, <1>3, <2>1, <2>2, <2>6 DEF Ownership, SimsAreOwned, OneSimEach, Marks, Segment
    <2> QED  BY <2>3, <2>4, <2>5, <2>7 DEF Ownership
  <1> QED  BY <1>2, <1>3

(* The second segment of a campaign. *)
LEMMA SetupSurgeKeeps ==
  ASSUME SessionInv, NEW p \in Process, SetupSurge(p)
  PROVE  SessionInv'
  BY SetupStep DEF SetupSurge, Names

(* The steps that end a process, but for its return, and OpenFiles. *)
LEMMA EndingKeeps ==
  ASSUME SessionInv, NEW p \in Process,
         \/ SetupCoverageFails(p) \/ SetupSurgeFails(p) \/ OpenFiles(p)
         \/ BuildFails(p) \/ Kill(p)
  PROVE  SessionInv'
  <1> USE DEF Alive
  <1>1. CASE SetupCoverageFails(p)
    BY <1>1, PhaseStep DEF SetupCoverageFails, SetupFails, Exit
  <1>2. CASE SetupSurgeFails(p)
    BY <1>2, PhaseStep DEF SetupSurgeFails, SetupFails, Exit
  <1>3. CASE OpenFiles(p)
    BY <1>3, PhaseStep DEF OpenFiles, Exit
  <1>4. CASE BuildFails(p)
    BY <1>4, PhaseStep DEF BuildFails, Exit
  <1>5. CASE Kill(p)
    BY <1>5, PhaseStep DEF Kill
  <1> QED  BY <1>1, <1>2, <1>3, <1>4, <1>5

(* The destructors remove the segments of the process, which has no simulator. *)
LEMMA ReturnKeeps ==
  ASSUME SessionInv, NEW p \in Process, Return(p)
  PROVE  SessionInv'
  <1> USE DEF SessionInv
  <1>1. /\ phase[p] = "idle" /\ phase' = [phase EXCEPT ![p] = "returned"]
        /\ segments' = {g \in segments : g.owner # p}
        /\ UNCHANGED <<method, fuzz_dir, memory, env, bitmap, run, sims, crashes>>
    BY DEF Return, Released
  <1>2. phase'[p] = "returned" /\ \A r \in Process \ {p} : phase'[r] = phase[r]
    BY <1>1 DEF Types
  <1>3. IsFiniteSet(segments')
    BY <1>1, FS_Subset DEF Types
  <1>4. Types'
    BY <1>1, <1>3 DEF Types, Phases
  <1>5. OwnIds' /\ OwnersLeft'
    BY <1>1, <1>2 DEF Ownership, OwnIds, OwnersLeft, Types
  <1>6. EnvIsTrue' /\ EnvIsSet'
    BY <1>1, <1>2 DEF Ownership, EnvIsTrue, EnvIsSet, Segment, Alive
  <1>7. \A s \in sims : s.owner \in Process \ {p} /\ phase'[s.owner] = phase[s.owner]
    <2>1. \A s \in sims : s.owner \in Process /\ phase[s.owner] \in {"running", "killed"}
      BY DEF Types, Simulators, Ownership, SimsAreOwned
    <2> QED  BY <1>1, <1>2, <2>1
  <1>8. SimsAreOwned'
    BY <1>1, <1>7 DEF Ownership, SimsAreOwned, Segment
  <1>9. OneSimEach' /\ Marks'
    BY <1>1, <1>2, <1>7, SameCover DEF Ownership, OneSimEach, Marks
  <1> QED  BY <1>4, <1>5, <1>6, <1>8, <1>9 DEF Ownership

(* The segment is zeroed, and the new simulator has marked nothing. *)
LEMMA StartSimulatorKeeps ==
  ASSUME SessionInv, NEW p \in Process, StartSimulator(p)
  PROVE  SessionInv'
  <1> USE DEF SessionInv
  <1> DEFINE new == [owner |-> p, cov |-> env[p]["FUZZ_BITMAP"], init |-> None, trace |-> <<>>]
  <1>1. /\ phase[p] = "idle" /\ phase' = [phase EXCEPT ![p] = "running"]
        /\ run' = [run EXCEPT ![p] = run[p] + 1]
        /\ memory' = IF method = "blackbox" THEN memory
                     ELSE [memory EXCEPT ![env[p]["FUZZ_BITMAP"]] = {}]
        /\ sims' = sims \cup {new}
        /\ UNCHANGED <<method, fuzz_dir, segments, env, bitmap, crashes>>
    BY DEF StartSimulator
  <1>2. /\ new.owner = p /\ new.cov = env[p]["FUZZ_BITMAP"]
        /\ new.init = None /\ new.trace = <<>>
    OBVIOUS
  <1>3. phase'[p] = "running" /\ \A r \in Process \ {p} : phase'[r] = phase[r]
    BY <1>1 DEF Types
  <1>4. new \in Simulators /\ Len(new.trace) <= MaxClocks
    <2>1. env[p]["FUZZ_BITMAP"] \in Ids \cup {None} /\ <<>> \in Seq(Wires)
      BY DEF Types, Names
    <2>2. Len(<<>>) = 0 /\ MaxClocks \in Nat
      BY SessionAssumption
    <2> QED  BY <2>1, <2>2 DEF Simulators
  <1> HIDE DEF new
  <1>5. Types'
    <2>1. run' \in [Process -> Nat]
      BY <1>1 DEF Types
    <2>2. memory' \in [Ids -> SUBSET Points]
      BY <1>1 DEF Types
    <2>3. phase' \in [Process -> Phases]
      BY <1>1 DEF Types, Phases
    <2>4. sims' \subseteq Simulators /\ \A s \in sims' : Len(s.trace) <= MaxClocks
      BY <1>1, <1>4 DEF Types
    <2> QED  BY <1>1, <2>1, <2>2, <2>3, <2>4 DEF Types
  <1>6. OwnIds' /\ OwnersLeft'
    BY <1>1, <1>3 DEF Ownership, OwnIds, OwnersLeft, Types, Alive
  <1>7. EnvIsTrue' /\ EnvIsSet'
    BY <1>1, <1>3 DEF Ownership, EnvIsTrue, EnvIsSet, Segment, Alive
  <1>8. \A s \in sims : s.owner \in Process \ {p} /\ phase'[s.owner] = phase[s.owner]
    <2>1. \A s \in sims : s.owner \in Process /\ phase[s.owner] \in {"running", "killed"}
      BY DEF Types, Simulators, Ownership, SimsAreOwned
    <2> QED  BY <1>1, <1>3, <2>1
  <1>9. method # "blackbox" =>
          /\ env[p]["FUZZ_BITMAP"] \in Ids
          /\ Segment(p, "FUZZ_BITMAP", env[p]["FUZZ_BITMAP"]) \in segments
    <2>1. method # "blackbox" => env[p]["FUZZ_BITMAP"] # None
      BY <1>1 DEF Ownership, EnvIsSet, Alive
    <2>2. "FUZZ_BITMAP" \in Names /\ phase[p] \in Alive
      BY <1>1 DEF Names, Alive
    <2>3. env[p]["FUZZ_BITMAP"] \in Ids \cup {None}
      BY <2>2 DEF Types
    <2> QED  BY <2>1, <2>2, <2>3 DEF Ownership, EnvIsTrue
  <1>10. SimsAreOwned'
    <2>1. ASSUME NEW s \in sims'
          PROVE  /\ phase'[s.owner] \in {"running", "killed"}
                 /\ method # "blackbox" =>
                      Segment(s.owner, "FUZZ_BITMAP", s.cov) \in segments
                 /\ phase'[s.owner] = "running" => s.cov = env[s.owner]["FUZZ_BITMAP"]
      <3>1. CASE s = new
        BY <1>2, <1>3, <1>9, <3>1
      <3>2. CASE s \in sims
        BY <1>8, <3>2 DEF Ownership, SimsAreOwned
      <3> QED  BY <1>1, <3>1, <3>2
    <2> QED  BY <1>1, <2>1 DEF SimsAreOwned, Segment
  <1>11. OneSimEach'
    <2>1. \A s \in sims', t \in sims' : s.owner = t.owner => s = t
      BY <1>1, <1>2, <1>8 DEF Ownership, OneSimEach
    <2>2. \A r \in Process : phase'[r] = "running" => \E s \in sims' : s.owner = r
      BY <1>1, <1>2, <1>3 DEF Ownership, OneSimEach
    <2> QED  BY <2>1, <2>2 DEF OneSimEach
  <1>12. Marks'
    <2>1. ASSUME NEW s \in sims'
          PROVE  /\ s.trace = <<>> => s.init = None
                 /\ s.trace # <<>> => s.init = s.trace[1]
                 /\ phase'[s.owner] = "running" /\ method # "blackbox" =>
                      memory'[s.cov] = CoveredBy(s.trace)
      <3>1. CASE s = new
        <4>1. method # "blackbox" => memory'[s.cov] = {}
          BY <1>1, <1>2, <1>9, <3>1 DEF Types
        <4>2. CoveredBy(s.trace) = {}
          BY <1>2, <3>1, NothingCovered DEF Types
        <4> QED  BY <1>2, <3>1, <4>1, <4>2
      <3>2. CASE s \in sims
        <4>1. method # "blackbox" => s.cov # env[p]["FUZZ_BITMAP"]
          <5>1. s.owner # p
            BY <1>8, <3>2
          <5> QED  BY <1>9, <3>2, <5>1 DEF Ownership, OwnIds, SimsAreOwned, Segment
        <4>2. method # "blackbox" => memory'[s.cov] = memory[s.cov]
          BY <1>1, <4>1 DEF Types
        <4> QED  BY <1>8, <3>2, <4>2 DEF Marks
      <3> QED  BY <1>1, <3>1, <3>2
    <2> QED  BY <1>1, <2>1, SameCover DEF Marks
  <1> QED  BY <1>5, <1>6, <1>7, <1>10, <1>11, <1>12 DEF Ownership

(* What a clock changes of a simulator's record. *)
LEMMA Ticked ==
  ASSUME NEW s \in Simulators, NEW l, NEW a
  PROVE  [s EXCEPT !.init = l, !.trace = a] =
           [owner |-> s.owner, cov |-> s.cov, init |-> l, trace |-> a]
  <1> DEFINE t == [s EXCEPT !.init = l, !.trace = a]
             u == [owner |-> s.owner, cov |-> s.cov, init |-> l, trace |-> a]
             F == {"owner", "cov", "init", "trace"}
  <1>1. s = [f \in F |-> s[f]]
    BY DEF Simulators
  <1>2. t = [f \in F |-> IF f = "trace" THEN a ELSE IF f = "init" THEN l ELSE s[f]]
    BY <1>1
  <1>3. u = [f \in F |-> IF f = "trace" THEN a ELSE IF f = "init" THEN l ELSE s[f]]
    OBVIOUS
  <1> QED  BY <1>2, <1>3

(* A clock of a simulator marks its own segment only. *)
LEMMA ClockKeeps ==
  ASSUME SessionInv, NEW s \in sims, NEW wire \in Wires, Clock(s, wire)
  PROVE  SessionInv'
  <1> USE DEF SessionInv
  <1> DEFINE new == [s EXCEPT !.init = Latched(s, wire), !.trace = Append(s.trace, wire)]
             marked == Marked(method, Latched(s, wire), wire)
  <1>1. /\ Len(s.trace) < MaxClocks
        /\ sims' = (sims \ {s}) \cup {new}
        /\ memory' = IF method = "blackbox" THEN memory
                     ELSE [memory EXCEPT ![s.cov] = memory[s.cov] \cup marked]
        /\ UNCHANGED <<method, fuzz_dir, phase, segments, env, bitmap, run, crashes>>
    BY DEF Clock
  <1>2. s \in Simulators /\ s.owner \in Process /\ s.trace \in Seq(Wires)
    BY DEF Types, Simulators
  <1>3. Latched(s, wire) \in Wires
    BY <1>2, LatchedIsWire
  <1>4. /\ new \in Simulators
        /\ new.owner = s.owner /\ new.cov = s.cov
        /\ new.init = Latched(s, wire) /\ new.trace = Append(s.trace, wire)
    <2>1. Append(s.trace, wire) \in Seq(Wires)
      BY <1>2
    <2>2. /\ DOMAIN s = {"owner", "cov", "init", "trace"}
          /\ s.owner \in Process /\ s.cov \in Ids \cup {None}
      BY <1>2 DEF Simulators
    <2>3. new = [owner |-> s.owner, cov |-> s.cov, init |-> Latched(s, wire),
                 trace |-> Append(s.trace, wire)]
      BY <1>2, Ticked
    <2> HIDE DEF new
    <2> QED  BY <1>3, <2>1, <2>2, <2>3 DEF Simulators
  <1>5. /\ Len(new.trace) <= MaxClocks /\ new.trace # <<>>
        /\ s.trace = <<>> => new.trace[1] = wire
        /\ s.trace # <<>> => new.trace[1] = s.trace[1]
    <2>1. Len(s.trace) \in Nat /\ Len(Append(s.trace, wire)) = Len(s.trace) + 1
      BY <1>2
    <2>2. MaxClocks \in Nat
      BY SessionAssumption
    <2>3. s.trace = <<>> => Append(s.trace, wire)[1] = wire
      OBVIOUS
    <2>4. s.trace # <<>> => Append(s.trace, wire)[1] = s.trace[1]
      BY <1>2
    <2> QED  BY <1>1, <1>2, <1>4, <2>1, <2>2, <2>3, <2>4
  <1>6. /\ s.trace = <<>> => Latched(s, wire) = wire
        /\ s.trace # <<>> => Latched(s, wire) = s.trace[1]
    <2>1. s.trace # <<>> => s.trace[1] \in Wires
      BY <1>2
    <2> QED  BY <2>1, NoneIsNoId DEF Marks, Latched
  <1>7. marked \subseteq Points
    BY <1>3, MarkedIsPoints DEF Types
  <1>8. CoveredBy(new.trace) = CoveredBy(s.trace) \cup marked
    BY <1>2, <1>3, <1>4, <1>6, CoveredByOneMore DEF Types
  <1>9. method # "blackbox" =>
          s.cov \in Ids /\ Segment(s.owner, "FUZZ_BITMAP", s.cov) \in segments
    BY DEF Ownership, SimsAreOwned, Types, Segment
  <1> HIDE DEF new, marked
  <1>10. Types'
    <2>1. memory' \in [Ids -> SUBSET Points]
      BY <1>1, <1>7, <1>9 DEF Types
    <2>2. sims' \subseteq Simulators /\ \A t \in sims' : Len(t.trace) <= MaxClocks
      BY <1>1, <1>4, <1>5 DEF Types
    <2> QED  BY <1>1, <2>1, <2>2 DEF Types
  <1>11. OwnIds' /\ OwnersLeft' /\ EnvIsTrue' /\ EnvIsSet'
    BY <1>1 DEF Ownership, OwnIds, OwnersLeft, EnvIsTrue, EnvIsSet, Segment
  <1>12. SimsAreOwned'
    BY <1>1, <1>4 DEF Ownership, SimsAreOwned, Segment
  <1>13. OneSimEach'
    BY <1>1, <1>4 DEF Ownership, OneSimEach
  <1>14. Marks'
    <2>1. ASSUME NEW t \in sims'
          PROVE  /\ t.trace = <<>> => t.init = None
                 /\ t.trace # <<>> => t.init = t.trace[1]
                 /\ phase[t.owner] = "running" /\ method # "blackbox" =>
                      memory'[t.cov] = CoveredBy(t.trace)
      <3>1. CASE t = new
        <4>1. t.trace # <<>> /\ t.init = t.trace[1]
          BY <1>4, <1>5, <1>6, <3>1
        <4>2. ASSUME phase[t.owner] = "running", method # "blackbox"
              PROVE  memory'[t.cov] = CoveredBy(t.trace)
          <5>1. memory'[s.cov] = memory[s.cov] \cup marked
            BY <1>1, <1>9, <4>2 DEF Types
          <5>2. memory[s.cov] = CoveredBy(s.trace)
            BY <1>4, <3>1, <4>2 DEF Marks
          <5> QED  BY <1>4, <1>8, <3>1, <5>1, <5>2
        <4> QED  BY <4>1, <4>2
      <3>2. CASE t \in sims /\ t # s
        <4>1. t.owner # s.owner
          BY <3>2 DEF Ownership, OneSimEach
        <4>2. method # "blackbox" => t.cov # s.cov
          BY <1>9, <3>2, <4>1 DEF Ownership, OwnIds, SimsAreOwned, Segment
        <4>3. method # "blackbox" => memory'[t.cov] = memory[t.cov]
          BY <1>1, <4>2 DEF Types
        <4> QED  BY <3>2, <4>3 DEF Marks
      <3> QED  BY <1>1, <3>1, <3>2
    <2> QED  BY <1>1, <2>1, SameCover DEF Marks
  <1> QED  BY <1>10, <1>11, <1>12, <1>13, <1>14 DEF Ownership

(* A simulator whose fuzzer was killed ends. *)
LEMMA OrphanEndsKeeps ==
  ASSUME SessionInv, NEW s \in sims, OrphanEnds(s)
  PROVE  SessionInv'
  <1> USE DEF SessionInv
  <1>1. /\ phase[s.owner] = "killed" /\ sims' = sims \ {s}
        /\ UNCHANGED <<method, fuzz_dir, phase, segments, memory, env, bitmap, run, crashes>>
    BY DEF OrphanEnds
  <1>2. Types'
    BY <1>1 DEF Types
  <1>3. OwnIds' /\ OwnersLeft' /\ EnvIsTrue' /\ EnvIsSet' /\ SimsAreOwned'
    BY <1>1 DEF Ownership, OwnIds, OwnersLeft, EnvIsTrue, EnvIsSet, SimsAreOwned, Segment
  <1>4. OneSimEach'
    BY <1>1 DEF Ownership, OneSimEach
  <1>5. Marks'
    BY <1>1, SameCover DEF Marks
  <1> QED  BY <1>2, <1>3, <1>4, <1>5 DEF Ownership

(* The process goes on, or exits, without a simulator. *)
LEMMA AnswerKeeps ==
  ASSUME SessionInv, NEW p \in Process, Answer(p), NEW q \in {"idle", "exited"},
         phase' = [phase EXCEPT ![p] = q],
         UNCHANGED <<method, fuzz_dir, segments, memory, env, run>>
  PROVE  SessionInv'
  <1> USE DEF SessionInv
  <1>1. /\ phase[p] = "running" /\ sims' = sims \ Child(p)
        /\ bitmap' = [bitmap EXCEPT ![p] = Applied(method, bitmap[p], Local(p))]
    BY DEF Answer
  <1>2. phase'[p] = q /\ \A r \in Process \ {p} : phase'[r] = phase[r]
    BY DEF Types
  <1>3. Applied(method, bitmap[p], Local(p)) \subseteq Points
    <2>1. CASE method = "blackbox"
      BY <2>1 DEF Applied, Types
    <2>2. CASE method # "blackbox"
      <3>1. env[p]["FUZZ_BITMAP"] \in Ids
        <4>1. env[p]["FUZZ_BITMAP"] # None
          BY <1>1, <2>2 DEF Ownership, EnvIsSet, Alive
        <4> QED  BY <4>1 DEF Types, Names
      <3>2. Local(p) \subseteq Points
        BY <2>2, <3>1 DEF Local, Types
      <3> QED  BY <2>2, <3>2 DEF Applied, Types
    <2> QED  BY <2>1, <2>2
  <1>4. Types'
    <2>1. bitmap' \in [Process -> SUBSET Points]
      BY <1>1, <1>3 DEF Types
    <2>2. phase' \in [Process -> Phases]
      BY DEF Types, Phases
    <2> QED  BY <1>1, <2>1, <2>2 DEF Types
  <1>5. OwnIds' /\ OwnersLeft'
    BY <1>2 DEF Ownership, OwnIds, OwnersLeft, Types, Alive
  <1>6. EnvIsTrue' /\ EnvIsSet'
    BY <1>1, <1>2 DEF Ownership, EnvIsTrue, EnvIsSet, Segment, Alive
  <1>7. \A s \in sims' : s \in sims /\ s.owner \in Process \ {p}
                         /\ phase'[s.owner] = phase[s.owner]
    BY <1>1, <1>2 DEF Types, Simulators, Child
  <1>8. SimsAreOwned'
    BY <1>7 DEF Ownership, SimsAreOwned, Segment
  <1>9. OneSimEach'
    <2>1. \A r \in Process : phase'[r] = "running" => \E s \in sims' : s.owner = r
      BY <1>1, <1>2 DEF Ownership, OneSimEach, Child
    <2> QED  BY <1>7, <2>1 DEF Ownership, OneSimEach
  <1>10. Marks'
    BY <1>7, SameCover DEF Marks
  <1> QED  BY <1>4, <1>5, <1>6, <1>8, <1>9, <1>10 DEF Ownership

(* Every step of the machine. *)
LEMMA SessionInvStep == SessionInv /\ [Next]_vars => SessionInv'
  <1> SUFFICES ASSUME SessionInv, [Next]_vars PROVE SessionInv'
    OBVIOUS
  <1>1. ASSUME NEW p \in Process, Passes(p) PROVE SessionInv'
    BY <1>1, AnswerKeeps DEF Passes
  <1>2. ASSUME NEW p \in Process, NEW t \in Elapsed, Crashes(p, t) PROVE SessionInv'
    BY <1>2, AnswerKeeps DEF Crashes, Exit
  <1>3. CASE UNCHANGED vars
    BY <1>3, SameCover
       DEF vars, SessionInv, Types, Ownership, OwnIds, OwnersLeft, EnvIsTrue, EnvIsSet,
           SimsAreOwned, OneSimEach, Marks, Segment
  <1>4. CASE Next
    BY <1>1, <1>2, <1>4, SetupCoverageKeeps, SetupSurgeKeeps, EndingKeeps, ReturnKeeps,
       StartSimulatorKeeps, ClockKeeps, OrphanEndsKeeps DEF Next
  <1> QED  BY <1>3, <1>4

(* The invariant holds throughout. *)
LEMMA SessionInvariant == Spec => []SessionInv
  BY InitSessionInv, SessionInvStep, PTL DEF Spec

----------------------------------------------------------------------------
(* THE ENERGY OF DIRECTFUZZ                                                *)

Distances == {Dist[r] : r \in DOMAIN Dist}

(* The largest distance is one of them (get_instance_max_dist). *)
LEMMA MaxDistFacts ==
  ASSUME DOMAIN Dist # {}
  PROVE  MaxDist \in Distances /\ MaxDist \in Nat /\ \A r \in DOMAIN Dist : Dist[r] <= MaxDist
  <1>1. IsFiniteSet(DOMAIN Dist)
    BY CoverageAssumption, FS_Subset
  <1>2. IsFiniteSet(Distances)
    <2> DEFINE f == [r \in DOMAIN Dist |-> Dist[r]]
    <2>1. f \in Surjection(DOMAIN Dist, Distances)
      BY DEF Surjection, Distances
    <2> QED  BY <1>1, <2>1, FS_Surjection
  <1>3. Distances \in SUBSET Nat /\ Distances # {}
    BY CoverageAssumption DEF Distances
  <1>4. \E m \in Distances : \A n \in Distances : m >= n
    BY <1>2, <1>3, LargestExists
  <1>5. MaxDist = CHOOSE m \in Distances : \A n \in Distances : m >= n
    BY DEF MaxDist, Max, Distances
  <1>6. MaxDist \in Distances /\ \A n \in Distances : MaxDist >= n
    BY <1>4, <1>5
  <1>7. \A r \in DOMAIN Dist : Dist[r] \in Distances /\ Dist[r] \in Nat
    BY CoverageAssumption DEF Distances
  <1> QED  BY <1>3, <1>6, <1>7

(* There are finitely many points to cover. *)
LEMMA PointsAreFinite == IsFiniteSet(Points)
  BY CoverageAssumption, FS_Product, FS_SUBSET, FS_Union DEF Points

(* The points that have a distance. *)
Weighed == {pt \in Points : pt[1] \in DOMAIN Dist}

(* A multiple grows by one more of the same. *)
Times(n, m) == n * m

(* Products, one summand after the other. *)
LEMMA TimesFacts ==
  ASSUME NEW m \in Nat
  PROVE  Times(0, m) = 0 /\ \A n \in Nat : Times(n, m) \in Nat /\ Times(n + 1, m) = Times(n, m) + m
  BY DEF Times

(* The sum over covered points: none but for distance zero, and at most the
   largest distance for each of them, which it is if all are that far away
   (the loops of DirectFuzz::energy). *)
LEMMA SumOfDistancesFacts ==
  ASSUME NEW B, IsFiniteSet(B), B \in SUBSET Weighed, B # {}
  PROVE  /\ SumOfDistances(B) \in Nat
         /\ SumOfDistances(B) <= Times(Cardinality(B), MaxDist)
         /\ SumOfDistances(B) = 0 <=> \A pt \in B : Dist[pt[1]] = 0
         /\ (\A pt \in B : Dist[pt[1]] = MaxDist) =>
              SumOfDistances(B) = Times(Cardinality(B), MaxDist)
  <1> DEFINE E(g) == g = [s \in SUBSET B |-> IF s = {} THEN 0
                                           ELSE Dist[PickOf(s)[1]] + g[s \ {PickOf(s)}]]
             table == CHOOSE g : E(g)
             f == [pt \in B |-> Dist[pt[1]]]
  <1>1. SumOfDistances(B) = table[B]
    BY DEF SumOfDistances, MapThenSumSet, MapThenFoldSet, PickOf
  <1>2. \E g : E(g)
    <2>1. IsSum(SumTable(f, B), f, SUBSET B)
      BY SumExists
    <2> DEFINE g == SumTable(f, B)
    <2> HIDE DEF g
    <2>2. g = [s \in SUBSET B |-> IF s = {} THEN 0 ELSE f[PickOf(s)] + g[s \ {PickOf(s)}]]
      BY <2>1 DEF IsSum, g
    <2>3. \A s \in SUBSET B : s # {} => PickOf(s) \in B
      BY DEF PickOf
    <2>4. \A s \in SUBSET B : s # {} => f[PickOf(s)] = Dist[PickOf(s)[1]]
      BY <2>3
    <2> HIDE DEF f
    <2>5. E(g)
      BY <2>2, <2>4
    <2> QED  BY <2>5
  <1>3. E(table)
    BY <1>2
  <1> HIDE DEF table
  <1>4. \A s \in SUBSET B :
          table[s] = IF s = {} THEN 0 ELSE Dist[PickOf(s)[1]] + table[s \ {PickOf(s)}]
    BY <1>3
  <1>5. \A pt \in B : Dist[pt[1]] \in Nat /\ Dist[pt[1]] <= MaxDist
    <2>1. \A pt \in B : pt[1] \in DOMAIN Dist
      BY DEF Weighed
    <2> QED  BY <2>1, MaxDistFacts, CoverageAssumption
  <1>6. MaxDist \in Nat
    BY MaxDistFacts DEF Weighed
  <1> DEFINE Good(s) == /\ table[s] \in Nat
                        /\ table[s] <= Times(Cardinality(s), MaxDist)
                        /\ table[s] = 0 <=> \A pt \in s : Dist[pt[1]] = 0
                        /\ (\A pt \in s : Dist[pt[1]] = MaxDist) =>
                             table[s] = Times(Cardinality(s), MaxDist)
             G == {s \in SUBSET B : Good(s)}
  <1>7. {} \in G
    <2>1. table[{}] = 0 /\ Cardinality({}) = 0
      BY <1>4, FS_EmptySet
    <2>2. Times(Cardinality({}), MaxDist) = 0
      BY <1>6, <2>1, TimesFacts
    <2>3. Good({})
      BY <2>1, <2>2
    <2> QED  BY <2>3
  <1>8. ASSUME NEW s \in SUBSET B, s # {}, s \ {PickOf(s)} \in G PROVE s \in G
    <2> DEFINE x == PickOf(s)
               t == s \ {x}
               n == Cardinality(t)
               d == Dist[x[1]]
    <2>1. x \in s /\ Cardinality(s) = n + 1 /\ n \in Nat
      <3>1. /\ x \in s /\ Cardinality(s) \in Nat /\ Cardinality(s) # 0
            /\ n = Cardinality(s) - 1
        BY <1>8, PickedOut
      <3> QED  BY <3>1
    <2>2. table[s] = d + table[t]
      BY <1>4, <1>8
    <2>3. Good(t)
      BY <1>8
    <2>4. d \in Nat /\ d <= MaxDist
      BY <1>5, <2>1
    <2>5. /\ Times(n, MaxDist) \in Nat
          /\ Times(Cardinality(s), MaxDist) = Times(n, MaxDist) + MaxDist
      <3> HIDE DEF n
      <3> QED  BY <1>6, <2>1, TimesFacts
    <2>6. s = t \cup {x}
      BY <2>1
    <2> DEFINE full == Times(n, MaxDist)
               all == Times(Cardinality(s), MaxDist)
               v == table[t]
    <2>7. v \in Nat /\ v <= full /\ full \in Nat /\ all = full + MaxDist
      BY <2>3, <2>5
    <2>8. d + v \in Nat /\ d + v <= all
      <3> HIDE DEF d, v, full, all
      <3> QED  BY <1>6, <2>4, <2>7
    <2>9. d + v = 0 <=> \A pt \in s : Dist[pt[1]] = 0
      <3>1. v = 0 <=> \A pt \in t : Dist[pt[1]] = 0
        BY <2>3
      <3>2. d + v = 0 <=> d = 0 /\ v = 0
        <4> HIDE DEF d, v
        <4> QED  BY <2>4, <2>7
      <3> HIDE DEF v, t
      <3> QED  BY <2>6, <3>1, <3>2
    <2>10. ASSUME \A pt \in s : Dist[pt[1]] = MaxDist PROVE d + v = all
      <3>1. d = MaxDist
        BY <2>1, <2>10
      <3>2. v = full
        BY <2>3, <2>10
      <3> HIDE DEF d, v, full, all
      <3> QED  BY <1>6, <2>7, <3>1, <3>2
    <2>11. Good(s)
      BY <2>2, <2>8, <2>9, <2>10
    <2> QED  BY <2>11
  <1>9. G = SUBSET B
    <2>1. G \in SUBSET SUBSET B
      OBVIOUS
    <2> HIDE DEF G
    <2> QED  BY <1>7, <1>8, <2>1, AllSubsets
  <1>10. B \in G
    BY <1>9
  <1> QED  BY <1>1, <1>10

(* The quotient: it lies between the bounds, is the upper one only for a sum
   of zero, and the lower one for the largest sum. *)
LEMMA EnergyQuotient ==
  ASSUME NEW sp \in Nat \ {0}, NEW sum \in Nat, sum <= sp,
         NEW hi \in Nat, NEW lo \in Nat, lo < hi
  PROVE  LET e == (hi * sp - (hi - lo) * sum) \div sp
         IN  /\ e \in lo .. hi
             /\ e = hi <=> sum = 0
             /\ sum = sp => e = lo
  <1> DEFINE D == hi - lo
             a == hi * sp - D * sum
             e == a \div sp
             r == a % sp
  <1>1. D \in Nat \ {0} /\ hi = lo + D
    OBVIOUS
  <1>2. a \in Int
    OBVIOUS
  <1>3. e \in Int /\ r \in 0 .. (sp - 1) /\ a = sp * e + r
    BY <1>2, Quotient
  <1>4. /\ D * sum \in Nat /\ D * sum <= D * sp
        /\ D * sum = 0 => sum = 0
    <2> HIDE DEF D
    <2>1. sp - sum \in Nat
      OBVIOUS
    <2>2. D * (sp - sum) >= 0
      BY <1>1, <2>1
    <2>3. D * (sp - sum) = D * sp - D * sum
      BY <1>1
    <2>4. sum # 0 => D * sum >= 1
      BY <1>1
    <2> QED  BY <1>1, <2>2, <2>3, <2>4
  <1> DEFINE up == hi - e
             down == e - lo
  <1>5. sp * up = D * sum + r
    <2>1. sp * hi - sp * e = sp * up
      BY <1>3
    <2>2. sp * hi = hi * sp
      OBVIOUS
    <2> HIDE DEF D, e, r, up
    <2> QED  BY <1>1, <1>3, <2>1, <2>2 DEF a
  <1>6. sp * down = D * sp - D * sum - r
    <2>1. sp * e - sp * lo = sp * down
      BY <1>3
    <2>2. sp * hi = sp * lo + D * sp /\ sp * hi = hi * sp
      BY <1>1
    <2> HIDE DEF D, e, r, down
    <2> QED  BY <1>1, <1>3, <2>1, <2>2 DEF a
  <1>7. up \in Int /\ down \in Int /\ up + down = D
    BY <1>3
  <1> DEFINE w == D * sum
             W == D * sp
  <1>8. w \in Nat /\ W \in Nat /\ w <= W /\ sp * up = w + r /\ sp * down = W - w - r
    BY <1>1, <1>4, <1>5, <1>6
  <1>9. (w = 0 <=> sum = 0) /\ (sum = sp => w = W)
    BY <1>4
  <1> HIDE DEF D, a, e, r, up, down, w, W
  <1>10. up >= 0
    <2> SUFFICES ASSUME up <= -1 PROVE FALSE
      BY <1>7
    <2>1. sp * up <= -sp
      BY <1>7
    <2> QED  BY <1>3, <1>8, <2>1
  <1>11. down >= 0
    <2> SUFFICES ASSUME down <= -1 PROVE FALSE
      BY <1>7
    <2>1. sp * down <= -sp
      BY <1>7
    <2> QED  BY <1>3, <1>8, <2>1
  <1>12. up = 0 <=> w = 0
    <2>1. up = 0 => w = 0
      <3> SUFFICES ASSUME up = 0 PROVE w = 0
        OBVIOUS
      <3>1. sp * up = 0
        OBVIOUS
      <3> QED  BY <1>3, <1>8, <3>1
    <2>2. w = 0 => up = 0
      <3> SUFFICES ASSUME w = 0 PROVE up = 0
        OBVIOUS
      <3>1. sp * up < sp /\ -sp < sp * up
        BY <1>3, <1>8
      <3> QED  BY <1>7, <3>1, LessThanATurn
    <2> QED  BY <2>1, <2>2
  <1>13. w = W => down = 0
    <2> SUFFICES ASSUME w = W PROVE down = 0
      OBVIOUS
    <2>1. sp * down < sp /\ -sp < sp * down
      BY <1>3, <1>8
    <2> QED  BY <1>7, <2>1, LessThanATurn
  <1>14. /\ e \in lo .. hi
         /\ e = hi <=> sum = 0
         /\ sum = sp => e = lo
    BY <1>3, <1>9, <1>10, <1>11, <1>12, <1>13 DEF up, down
  <1> QED  BY <1>14 DEF e, a, D

----------------------------------------------------------------------------
(* THEOREMS                                                                *)

(* The machine's variables keep their types; no segment has an id of none. *)
THEOREM SessionTypeCorrect == Spec => []SessionTypeOK
  <1>1. SessionInv => SessionTypeOK
    BY DEF SessionInv, Types, SessionTypeOK
  <1> QED  BY <1>1, SessionInvariant, PTL

(* A fuzzer that waits for its simulator has in its segment exactly what that
   simulator has covered so far, whatever the other processes do. *)
THEOREM MarksAreOwn == Spec => []MarksAreOfThisRun
  <1>1. SessionInv => MarksAreOfThisRun
    BY LocalIsCovered DEF MarksAreOfThisRun
  <1> QED  BY <1>1, SessionInvariant, PTL

(* Only processes that exited or were killed leave segments behind, and a
   process that is alive still has those it told its simulators of. *)
THEOREM OnlyExitsLeakSegments == Spec => []OnlyExitsLeak
  <1>1. SessionInv => OnlyExitsLeak
    BY DEF SessionInv, Ownership, OwnersLeft, EnvIsTrue, Segment, OnlyExitsLeak
  <1> QED  BY <1>1, SessionInvariant, PTL

(* No step loses or replaces a crash file. *)
THEOREM CrashFilesAreKept == Spec => CrashFilesSurvive
  <1>1. [Next]_vars => [crashes \subseteq crashes']_vars
    <2>1. ASSUME NEW p \in Process, NEW t \in Elapsed, Crashes(p, t)
          PROVE  crashes \subseteq crashes'
      BY <2>1 DEF Crashes, Saved, Taken
    <2> QED
      BY <2>1 DEF Next, vars, SetupCoverage, SetupCoverageFails, SetupSurge, SetupSurgeFails,
         SetupFails, OpenFiles, BuildFails, StartSimulator, Passes, Return, Kill, OrphanEnds,
         Clock
  <1> QED  BY <1>1, PTL DEF Spec, CrashFilesSurvive

(* When a cycle ends, the bitmap has grown by what the simulator covered, and
   new_coverage, asked before, has said whether it would. *)
THEOREM BitmapGrowsByOwnSimulator == Spec => BitmapGrowsByOwnRun
  <1> DEFINE Grows(p) ==
        phase[p] = "running" /\ phase'[p] \in {"idle", "exited"} =>
          \A s \in Child(p) :
            /\ bitmap'[p] = bitmap[p] \cup CoveredBy(s.trace)
            /\ NewCoverage(method, bitmap[p], Local(p)) <=> bitmap'[p] # bitmap[p]
  <1>1. ASSUME SessionInv, NEW p \in Process, Answer(p) PROVE Grows(p)
    <2>1. PICK s \in sims : Child(p) = {s} /\ Local(p) = CoveredBy(s.trace)
      BY <1>1, LocalIsCovered DEF Answer
    <2>2. bitmap'[p] = Applied(method, bitmap[p], Local(p))
      BY <1>1 DEF Answer, SessionInv, Types
    <2>3. CASE method = "blackbox"
      <3>1. Local(p) = {} /\ bitmap'[p] = bitmap[p]
        BY <2>2, <2>3 DEF Local, Applied
      <3> QED  BY <2>1, <2>3, <3>1 DEF NewCoverage
    <2>4. CASE method # "blackbox"
      BY <2>1, <2>2, <2>4 DEF Applied, NewCoverage
    <2> QED  BY <2>3, <2>4
  <1>2. ASSUME SessionInv, Next, NEW p \in Process,
               phase[p] = "running", phase'[p] \in {"idle", "exited"}
        PROVE  Answer(p)
    <2> USE DEF SessionInv
    <2>1. \A r \in Process, q \in Phases :
            phase' = [phase EXCEPT ![r] = q] => r = p /\ q \in {"idle", "exited"}
      BY <1>2 DEF Types
    <2>2. ASSUME NEW r \in Process,
                 \/ SetupCoverage(r) \/ SetupCoverageFails(r) \/ SetupSurge(r)
                 \/ SetupSurgeFails(r) \/ OpenFiles(r) \/ BuildFails(r)
                 \/ StartSimulator(r) \/ Return(r) \/ Kill(r)
          PROVE  FALSE
      BY <1>2, <2>1, <2>2
         DEF SetupCoverage, SetupCoverageFails, SetupSurge, SetupSurgeFails, SetupFails,
             OpenFiles, BuildFails, StartSimulator, Return, Kill, Exit, Phases
    <2>3. ASSUME NEW r \in Process, Passes(r) PROVE Answer(p)
      BY <2>1, <2>3 DEF Passes, Phases
    <2>4. ASSUME NEW r \in Process, NEW t \in Elapsed, Crashes(r, t) PROVE Answer(p)
      BY <2>1, <2>4 DEF Crashes, Exit, Phases
    <2>5. ASSUME NEW s \in sims, NEW wire \in Wires, Clock(s, wire)
          PROVE  FALSE
      BY <1>2, <2>5 DEF Clock
    <2>6. ASSUME NEW s \in sims, OrphanEnds(s) PROVE FALSE
      BY <1>2, <2>6 DEF OrphanEnds
    <2> QED  BY <1>2, <2>2, <2>3, <2>4, <2>5, <2>6 DEF Next
  <1>3. SessionInv /\ [Next]_vars => [\A p \in Process : Grows(p)]_vars
    <2> SUFFICES ASSUME SessionInv, Next, NEW p \in Process PROVE Grows(p)
      OBVIOUS
    <2> QED  BY <1>1, <1>2
  <1> QED  BY <1>3, SessionInvariant, PTL DEF Spec, BitmapGrowsByOwnRun

(* DirectFuzz prefers the inputs whose covered selects are near the target, for
   any distances: the energy is never out of its bounds, the largest only for
   selects of the target instance, the smallest for the farthest ones, and a
   number as long as all covered rows have a distance and some instance is
   away from the target (DirectFuzz::energy). *)
THEOREM EnergyAlwaysFollowsDistance == Spec => []EnergyFollowsDistance
  <1>1. SessionInv => EnergyFollowsDistance
    <2> SUFFICES ASSUME SessionInv, method = "directfuzz", NEW p \in Process
        PROVE  LET e == Energy(method, bitmap[p])
                   rows == {pt[1] : pt \in bitmap[p]}
                   spread == \E r \in DOMAIN Dist : Dist[r] > 0
               IN  /\ e # Undefined => e \in MinEnergy .. MaxEnergy
                   /\ e = Undefined => ~spread \/ ~(rows \subseteq DOMAIN Dist)
                   /\ rows # {} /\ rows \subseteq DOMAIN Dist /\ spread =>
                        /\ e = MaxEnergy <=> \A r \in rows : Dist[r] = 0
                        /\ (\A r \in rows, q \in DOMAIN Dist : Dist[q] <= Dist[r]) =>
                             e = MinEnergy
      BY DEF EnergyFollowsDistance
    <2> DEFINE B == bitmap[p]
               e == Energy(method, B)
               rows == {pt[1] : pt \in B}
               spread == \E r \in DOMAIN Dist : Dist[r] > 0
               n == Cardinality(B)
               sp == n * MaxDist
               Goal == /\ e # Undefined => e \in MinEnergy .. MaxEnergy
                       /\ e = Undefined => ~spread \/ ~(rows \subseteq DOMAIN Dist)
                       /\ rows # {} /\ rows \subseteq DOMAIN Dist /\ spread =>
                            /\ e = MaxEnergy <=> \A r \in rows : Dist[r] = 0
                            /\ (\A r \in rows, q \in DOMAIN Dist : Dist[q] <= Dist[r]) =>
                                 e = MinEnergy
    <2> SUFFICES Goal
      OBVIOUS
    <2>1. B \in SUBSET Points /\ IsFiniteSet(B) /\ n \in Nat /\ (n = 0 <=> B = {})
      <3>1. B \in SUBSET Points
        BY DEF SessionInv, Types
      <3> QED  BY <3>1, PointsAreFinite, FS_Subset, FS_CardinalityType, FS_EmptySet
    <2>2. /\ MinEnergy \in Nat /\ MaxEnergy \in Nat /\ MinEnergy < MaxEnergy
          /\ Undefined \notin Nat
      BY CoverageAssumption
    <2>3. e = IF n = 0 THEN MinEnergy
              ELSE IF \E pt \in B : pt[1] \notin DOMAIN Dist THEN Undefined
              ELSE IF MaxDist = 0 THEN Undefined
              ELSE (MaxEnergy * sp - (MaxEnergy - MinEnergy) * SumOfDistances(B)) \div sp
      BY DEF Energy
    <2>4. rows \subseteq DOMAIN Dist <=> \A pt \in B : pt[1] \in DOMAIN Dist
      OBVIOUS
    <2>5. ASSUME B = {} PROVE Goal
      <3>1. e = MinEnergy /\ rows = {}
        BY <2>1, <2>3, <2>5
      <3> HIDE DEF e, rows
      <3> QED  BY <2>2, <3>1
    <2>6. ASSUME ~(rows \subseteq DOMAIN Dist) PROVE Goal
      <3>1. e = Undefined
        BY <2>1, <2>3, <2>4, <2>6
      <3> HIDE DEF e, rows
      <3> QED  BY <2>6, <3>1
    <2>7. ASSUME B # {}, rows \subseteq DOMAIN Dist PROVE Goal
      <3>1. B \in SUBSET Weighed /\ DOMAIN Dist # {}
        BY <2>1, <2>4, <2>7 DEF Weighed
      <3>2. MaxDist \in Distances /\ MaxDist \in Nat /\ \A r \in DOMAIN Dist : Dist[r] <= MaxDist
        BY <3>1, MaxDistFacts
      <3>3. MaxDist = 0 <=> ~spread
        BY <3>2, CoverageAssumption DEF Distances
      <3>4. ASSUME MaxDist = 0 PROVE Goal
        <4>1. e = Undefined
          BY <2>1, <2>3, <2>4, <2>7, <3>4
        <4> HIDE DEF e, rows, spread
        <4> QED  BY <3>3, <3>4, <4>1
      <3>5. ASSUME MaxDist # 0 PROVE Goal
        <4> DEFINE sum == SumOfDistances(B)
        <4>1. /\ sum \in Nat /\ sum <= sp
              /\ sum = 0 <=> \A pt \in B : Dist[pt[1]] = 0
              /\ (\A pt \in B : Dist[pt[1]] = MaxDist) => sum = sp
          BY <2>1, <2>7, <3>1, SumOfDistancesFacts DEF Times
        <4>2. sp \in Nat \ {0}
          <5>1. \A i \in Nat \ {0}, j \in Nat \ {0} : i * j \in Nat \ {0}
            OBVIOUS
          <5> QED  BY <2>1, <2>7, <3>2, <3>5, <5>1
        <4>3. e = (MaxEnergy * sp - (MaxEnergy - MinEnergy) * sum) \div sp
          BY <2>1, <2>3, <2>4, <2>7, <3>5
        <4> HIDE DEF sum, sp
        <4>4. /\ e \in MinEnergy .. MaxEnergy
              /\ e = MaxEnergy <=> sum = 0
              /\ sum = sp => e = MinEnergy
          <5> HIDE DEF e
          <5> QED  BY <2>2, <4>1, <4>2, <4>3, EnergyQuotient
        <4>5. (\A r \in rows : Dist[r] = 0) <=> \A pt \in B : Dist[pt[1]] = 0
          OBVIOUS
        <4>6. ASSUME \A r \in rows, q \in DOMAIN Dist : Dist[q] <= Dist[r]
              PROVE  e = MinEnergy
          <5>1. ASSUME NEW pt \in B PROVE Dist[pt[1]] = MaxDist
            <6>1. pt[1] \in rows /\ pt[1] \in DOMAIN Dist
              BY <2>7
            <6>2. PICK q \in DOMAIN Dist : MaxDist = Dist[q]
              BY <3>2 DEF Distances
            <6>3. Dist[q] <= Dist[pt[1]] /\ Dist[pt[1]] <= MaxDist
              BY <3>2, <4>6, <6>1
            <6>4. Dist[pt[1]] \in Nat
              BY <6>1, CoverageAssumption
            <6> QED  BY <3>2, <6>2, <6>3, <6>4
          <5> QED  BY <4>1, <4>4, <5>1
        <4>7. e # Undefined
          BY <2>2, <4>4
        <4> HIDE DEF e, rows, spread
        <4> QED  BY <4>1, <4>4, <4>5, <4>6, <4>7
      <3> QED  BY <3>4, <3>5
    <2> HIDE DEF Goal
    <2> QED  BY <2>5, <2>6, <2>7
  <1> QED  BY <1>1, SessionInvariant, PTL
=============================================================================
