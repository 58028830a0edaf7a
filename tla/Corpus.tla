------------------------------- MODULE Corpus -------------------------------
(***************************************************************************)
(* The seed corpus (fuzzer/src/corpus.cpp).  A program is identified by    *)
(* the fuzz cycle it was generated in, so a seed's `cycle` also stands for *)
(* its program.                                                            *)
(***************************************************************************)
EXTENDS Common, Sequences

CONSTANT InitialSeedCount  \* Config::initial_seed_count

ASSUME InitialSeedCountAssumption == InitialSeedCount \in Nat \ {0}

VARIABLE corpus

Seeds == [cycle : Nat, id : Nat, pid : Nat, score : Nat, energy : Nat,
          used : Nat]

CorpusTypeOK == corpus \in Seq(Seeds)

CorpusInit == corpus = <<>>

----------------------------------------------------------------------------
(* Mutated forms, used only to show that the properties can fail.          *)

IdAfterInsert(c, seedId) == IF seedId = None THEN 0 ELSE Len(c) + 1
RawPid(seedId) == seedId
MarkFirstUsed(c, i) == [c EXCEPT ![1].used = @ + 1]
FileNameById(s) == <<s.id>>

----------------------------------------------------------------------------
HasInitialSeeds == Len(corpus) >= InitialSeedCount

(* get_next_seed may return any seed: rnd(size) without the power schedule,
   and with it every weight is energy + 1e-6, hence positive.  fuzz_one then
   calls Seed::used on the one it got. *)
MarkUsed(c, i) == [c EXCEPT ![i].used = @ + 1]

GetNextSeed(i) ==
  /\ HasInitialSeeds
  /\ corpus' = MarkUsed(corpus, i)

(* The id a new seed gets: its index, and 0 for each initial seed. *)
NewId(c, seedId) == IF seedId = None THEN 0 ELSE Len(c)
NewPid(seedId) == IF seedId = None THEN 0 ELSE seedId

AddNewInput(cycle, energy, score, seedId) ==
  corpus' = Append(corpus, [cycle |-> cycle, id |-> NewId(corpus, seedId),
                            pid |-> NewPid(seedId), score |-> score,
                            energy |-> energy, used |-> 0])

(* Seed::save: the name of the file a seed is written to. *)
SeedFileName(s) == <<s.id, s.pid, s.cycle, s.score, s.energy, s.used>>

CorpusSave(c) == {SeedFileName(c[i]) : i \in DOMAIN c}
=============================================================================
