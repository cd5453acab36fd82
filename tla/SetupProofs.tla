---------------------------- MODULE SetupProofs ----------------------------
(***************************************************************************)
(* Proofs about what comes before and around the training loop, as MCSetup *)
(* composes it: the directories of tokenized data several runs work on and *)
(* the record of the MLflow UI, for any processes, settings, parts, shells,*)
(* nodes and lengths of a behaviour; the launch, for any files, command    *)
(* lines and clusters; the rows of the data set, for any sources, batches  *)
(* and tokenizers; the plans of bhaskera-infer and what is served, for any *)
(* models, machines and flags; and the loss and the loads of the routers,  *)
(* for any logits and models.                                              *)
(***************************************************************************)
EXTENDS MCSetup, SlotOrderProofs, FiniteSetTheorems, SequenceTheorems, TLAPS

(* The other parts leave these files alone.                                *)
LEMMA OnlyOwnFiles ==
  ASSUME [MCSetupNext]_mcVars
  PROVE  [TokenNext]_tokenVars /\ [DashNext]_dashVars
BY DEF MCSetupNext, mcVars, files

(***************************************************************************)
(* Directories of tokenized data                                           *)
(***************************************************************************)

(* Files, places of a command line and types.                              *)
TokenFile == [run : Nat, setting : Setting, part : Part]
Places == {"idle", "remove", "write", "meta"}

TokenTypeOK ==
  /\ parquet \in [Keys -> SUBSET TokenFile] /\ partial \in [Keys -> SUBSET TokenFile]
  /\ meta \in [Keys -> Setting \cup {NoMeta, TornMeta}]
  /\ at \in [Process -> Places]
  /\ doing \in [Process -> [run : Nat, setting : Setting \cup {NoMeta}, overwrite : BOOLEAN]]
  /\ progress \in [Process -> [Part -> {"todo", "open", "closed"}]]
  /\ listing \in [Process -> SUBSET (TokenFile \cup {MetaEntry})]
  /\ runs \in Nat
  /\ printed \subseteq Keys
  /\ removal \in [Keys -> SUBSET Nat]

(* Every command line that runs has a number of its own, and no number on  *)
(* the storage is yet to be given.                                         *)
RunsDiffer ==
  /\ \A p \in Process : at[p] # "idle" =>
       /\ doing[p].setting \in Setting /\ doing[p].run \in 1 .. runs
       /\ \A q \in Process : at[q] # "idle" /\ doing[q].run = doing[p].run => q = p
  /\ \A key \in Keys : /\ removal[key] \subseteq 1 .. runs
                       /\ \A f \in parquet[key] : f.run <= runs

(* Who removes has begun a removal, and of files of earlier runs only.     *)
Removing(p) ==
  at[p] = "remove" =>
    /\ doing[p].run \in removal[JobKey(p)]
    /\ \A f \in listing[p] : f.run < doing[p].run

(* A part that was written to its end, by this run or by a later one.      *)
WholeFiles(key) == parquet[key] \ partial[key]
Parts(key) == {f.part : f \in WholeFiles(key)}
Since(n, x, key) == \E f \in WholeFiles(key) : f.part = x /\ f.run >= n

(* The file of a part, begun and ended by p: where it is, or why not.      *)
PartKept(p, x) ==
  \/ Own(p, x) \in parquet[JobKey(p)]
  \/ Since(doing[p].run, x, JobKey(p))
  \/ \E r \in removal[JobKey(p)] : r > doing[p].run
Writing(p, x) ==
  at[p] # "idle" =>
    /\ progress[p][x] = "todo" => Own(p, x) \notin parquet[JobKey(p)]
    /\ progress[p][x] = "closed" => Own(p, x) \notin partial[JobKey(p)]
    /\ progress[p][x] # "todo" => at[p] # "remove" /\ PartKept(p, x)
    /\ at[p] = "meta" => progress[p][x] = "closed"

(* Metadata tell of a directory that was printed, and what is printed is   *)
(* whole unless a removal of it was begun.                                 *)
DirectoriesHold ==
  /\ \A key \in Keys : \A f \in parquet[key] : Key(f.setting) = key
  /\ \A key \in Keys : meta[key] \in Setting => key \in printed
  /\ \A key \in Keys : Settled(key) => Part \subseteq Parts(key)

(* The inductive invariant of the directories.                             *)
TokenInv ==
  /\ TokenTypeOK /\ RunsDiffer /\ DirectoriesHold
  /\ \A p \in Process : Removing(p) /\ \A x \in Part : Writing(p, x)

(* What a command line works on, and the files of its own.                 *)
LEMMA JobKeys ==
  ASSUME TokenTypeOK, RunsDiffer, NEW p \in Process, at[p] # "idle"
  PROVE  /\ JobKey(p) \in Keys /\ Key(doing[p].setting) = JobKey(p) /\ doing[p].setting \in Setting
         /\ doing[p].run \in Nat \ {0}
         /\ \A x \in Part : Own(p, x) \in TokenFile /\ Own(p, x).run = doing[p].run /\ Own(p, x).part = x
                            /\ Own(p, x).setting = doing[p].setting
<1>1. doing[p].setting \in Setting /\ doing[p].run \in 1 .. runs /\ runs \in Nat
  BY DEF RunsDiffer, TokenTypeOK
<1>2. doing[p].run \in Nat \ {0}
  BY <1>1
<1>3. JobKey(p) \in Keys /\ Key(doing[p].setting) = JobKey(p)
  BY <1>1 DEF JobKey, Keys
<1> QED
  BY <1>1, <1>2, <1>3 DEF Own, TokenFile

(* It holds of the empty directories a behaviour starts with.              *)
LEMMA TokensStart == TokenInit => TokenInv
<1> SUFFICES ASSUME TokenInit PROVE TokenInv
  OBVIOUS
<1>1. TokenTypeOK
  BY DEF TokenInit, TokenTypeOK, Places, NoJob, Untouched
<1>2. RunsDiffer /\ DirectoriesHold
  <2>1. \A key \in Keys : meta[key] \notin Setting
    BY SettingAssumption DEF TokenInit, NoMeta
  <2> QED
    BY <2>1 DEF TokenInit, RunsDiffer, DirectoriesHold, Settled
<1>3. \A p \in Process : Removing(p) /\ \A x \in Part : Writing(p, x)
  BY DEF TokenInit, Removing, Writing
<1> QED
  BY <1>1, <1>2, <1>3 DEF TokenInv

(* Where nothing is lost, what was kept is kept.                           *)
FilesGrow ==
  \A k \in Keys : /\ parquet[k] \subseteq parquet'[k]
                  /\ parquet[k] \ partial[k] \subseteq parquet'[k] \ partial'[k]
                  /\ removal[k] \subseteq removal'[k]
LEMMA PartKeptStays ==
  ASSUME NEW p \in Process, NEW x \in Part, JobKey(p) \in Keys, doing'[p] = doing[p], FilesGrow, PartKept(p, x)
  PROVE  PartKept(p, x)'
<1>1. JobKey(p)' = JobKey(p) /\ Own(p, x)' = Own(p, x)
  BY DEF JobKey, Own
<1>2. CASE Own(p, x) \in parquet[JobKey(p)]
  BY <1>1, <1>2 DEF PartKept, FilesGrow
<1>3. CASE Since(doing[p].run, x, JobKey(p))
  BY <1>1, <1>3 DEF PartKept, FilesGrow, Since, WholeFiles
<1>4. CASE \E r \in removal[JobKey(p)] : r > doing[p].run
  BY <1>1, <1>4 DEF PartKept, FilesGrow
<1> QED
  BY <1>2, <1>3, <1>4 DEF PartKept

(* A run that gains keeps what the others rely on: new files are its own.  *)
OnlyActs(p) ==
  \A q \in Process : q # p =>
    at'[q] = at[q] /\ doing'[q] = doing[q] /\ progress'[q] = progress[q] /\ listing'[q] = listing[q]
NewFilesOwn(p) ==
  \A k \in Keys : \A f \in (parquet'[k] \ parquet[k]) \cup (partial'[k] \ partial[k]) :
    at'[p] # "idle" /\ f.run = doing'[p].run
LEMMA OthersKeep ==
  ASSUME TokenInv, NEW p \in Process, OnlyActs(p), FilesGrow, NewFilesOwn(p), RunsDiffer', NEW q \in Process, q # p
  PROVE  Removing(q)' /\ \A x \in Part : Writing(q, x)'
<1>1. at'[q] = at[q] /\ doing'[q] = doing[q] /\ progress'[q] = progress[q] /\ listing'[q] = listing[q]
  BY DEF OnlyActs
<1>2. CASE at[q] = "idle"
  BY <1>1, <1>2 DEF Removing, Writing
<1>3. CASE at[q] # "idle"
  <2>1. /\ JobKey(q) \in Keys /\ JobKey(q)' = JobKey(q)
        /\ \A x \in Part : Own(q, x)' = Own(q, x) /\ Own(q, x).run = doing[q].run
    BY <1>1, <1>3, JobKeys DEF JobKey, Own, TokenInv
  <2>2. Removing(q)'
    BY <1>1, <2>1 DEF TokenInv, Removing, FilesGrow
  <2>3. ASSUME NEW x \in Part PROVE Writing(q, x)'
    <3>1. Writing(q, x)
      BY DEF TokenInv
    <3>2. progress[q][x] # "todo" => PartKept(q, x)'
      BY <1>1, <1>3, <2>1, <3>1, PartKeptStays DEF Writing
    <3>3. at'[p] # "idle" => doing'[p].run # doing'[q].run
      BY <1>1, <1>3 DEF RunsDiffer
    <3>4. /\ Own(q, x) \in parquet'[JobKey(q)] => Own(q, x) \in parquet[JobKey(q)]
          /\ Own(q, x) \in partial'[JobKey(q)] => Own(q, x) \in partial[JobKey(q)]
      BY <1>1, <2>1, <3>3 DEF NewFilesOwn
    <3> QED
      BY <1>1, <1>3, <2>1, <3>1, <3>2, <3>4 DEF Writing
  <2> QED
    BY <2>2, <2>3
<1> QED
  BY <1>2, <1>3

(* The start of a command line.                                            *)
LEMMA VerifyKeeps ==
  ASSUME TokenInv, NEW p \in Process, NEW s \in Setting, NEW o \in MayOverwrite, Verify(p, s, o)
  PROVE  TokenInv'
<1> DEFINE key == Key(s)
           hit == VerifyCache(key, s) /\ ~o
<1>1. TokenTypeOK /\ RunsDiffer /\ DirectoriesHold
  BY DEF TokenInv
<1>2. /\ at[p] = "idle" /\ runs' = runs + 1 /\ runs \in Nat /\ key \in Keys
      /\ UNCHANGED <<parquet, partial, meta>>
  BY <1>1 DEF Verify, TokenTypeOK, Keys
<1>3. CASE hit
  <2>1. printed' = printed \cup {key} /\ UNCHANGED <<at, doing, progress, listing, removal>>
    BY <1>3 DEF Verify
  <2>2. key \in printed
    <3>1. meta[key].verified = s.verified /\ meta[key] \in Setting \cup {NoMeta, TornMeta}
      BY <1>1, <1>2, <1>3 DEF VerifyCache, TokenTypeOK
    <3>2. meta[key] \in Setting
      BY <3>1, SettingAssumption
    <3> QED
      BY <1>1, <1>2, <3>2 DEF DirectoriesHold
  <2>3. printed' = printed
    BY <2>1, <2>2
  <2>4. TokenTypeOK'
    BY <1>1, <1>2, <2>1, <2>3 DEF TokenTypeOK
  <2>5. RunsDiffer'
    <3>1. \A n \in 1 .. runs : n \in 1 .. runs'
      BY <1>2
    <3>2. ASSUME NEW k \in Keys, NEW f \in parquet[k] PROVE f.run <= runs'
      <4>1. f.run \in Nat /\ f.run <= runs
        BY <1>1, <3>2 DEF RunsDiffer, TokenTypeOK, TokenFile
      <4> QED
        BY <1>2, <4>1
    <3> QED
      BY <1>1, <1>2, <2>1, <3>1, <3>2 DEF RunsDiffer
  <2>6. DirectoriesHold'
    BY <1>1, <1>2, <2>1, <2>3 DEF DirectoriesHold, Settled, Parts, WholeFiles
  <2>7. \A q \in Process : Removing(q)' /\ \A x \in Part : Writing(q, x)'
    BY <1>2, <2>1 DEF TokenInv, Removing, Writing, PartKept, Since, WholeFiles, Own, JobKey
  <2> QED
    BY <2>4, <2>5, <2>6, <2>7 DEF TokenInv
<1>4. CASE ~hit
  <2> DEFINE l == at'[p]
  <2>1. /\ printed' = printed
        /\ doing' = [doing EXCEPT ![p] = [run |-> runs + 1, setting |-> s, overwrite |-> o]]
        /\ progress' = [progress EXCEPT ![p] = Untouched]
        /\ \/ /\ at' = [at EXCEPT ![p] = "remove"] /\ listing' = [listing EXCEPT ![p] = Entries(key)]
              /\ removal' = [removal EXCEPT ![key] = @ \cup {runs + 1}]
           \/ at' = [at EXCEPT ![p] = "write"] /\ UNCHANGED <<listing, removal>>
    BY <1>2, <1>4 DEF Verify, Move
  <2>2. Entries(key) \in SUBSET (TokenFile \cup {MetaEntry})
    BY <1>1, <1>2 DEF Entries, TokenTypeOK
  <2>3. TokenTypeOK'
    <3>1. at' \in [Process -> Places]
      BY <1>1, <2>1 DEF TokenTypeOK, Places
    <3>4. listing' \in [Process -> SUBSET (TokenFile \cup {MetaEntry})]
      <4>1. listing \in [Process -> SUBSET (TokenFile \cup {MetaEntry})]
        BY <1>1 DEF TokenTypeOK
      <4>2. listing' = listing \/ listing' = [listing EXCEPT ![p] = Entries(key)]
        BY <2>1
      <4> QED
        BY <2>2, <4>1, <4>2
    <3>5. removal' \in [Keys -> SUBSET Nat]
      <4>1. runs + 1 \in Nat /\ removal \in [Keys -> SUBSET Nat]
        BY <1>1, <1>2 DEF TokenTypeOK
      <4>2. removal' = removal \/ removal' = [removal EXCEPT ![key] = @ \cup {runs + 1}]
        BY <2>1
      <4> QED
        BY <4>1, <4>2
    <3>2. doing' \in [Process -> [run : Nat, setting : Setting \cup {NoMeta}, overwrite : BOOLEAN]]
      BY <1>1, <1>2, <2>1, SettingAssumption DEF TokenTypeOK
    <3>3. progress' \in [Process -> [Part -> {"todo", "open", "closed"}]]
      BY <1>1, <2>1 DEF TokenTypeOK, Untouched
    <3> QED
      BY <1>1, <1>2, <2>1, <3>1, <3>2, <3>3, <3>4, <3>5 DEF TokenTypeOK
  <2>4. /\ \A q \in Process : q # p => at'[q] = at[q] /\ doing'[q] = doing[q] /\ progress'[q] = progress[q]
                                        /\ listing'[q] = listing[q]
        /\ at'[p] \in {"remove", "write"} /\ doing'[p].run = runs + 1 /\ doing'[p].setting = s
        /\ \A x \in Part : progress'[p][x] = "todo"
        /\ at'[p] = "remove" => listing'[p] = Entries(key) /\ runs + 1 \in removal'[key]
    BY <1>1, <1>2, <2>1 DEF TokenTypeOK, Untouched
  <2>5. \A k \in Keys : removal[k] \subseteq removal'[k] /\ removal'[k] \subseteq removal[k] \cup {runs + 1}
    BY <1>1, <2>1 DEF TokenTypeOK
  <2>6. RunsDiffer'
    <3>1. ASSUME NEW q \in Process, at'[q] # "idle"
          PROVE  /\ doing'[q].setting \in Setting /\ doing'[q].run \in 1 .. runs'
                 /\ q # p => at[q] # "idle" /\ doing'[q].run \in 1 .. runs
      BY <1>1, <1>2, <2>4, <3>1 DEF RunsDiffer
    <3>2. ASSUME NEW q \in Process, NEW r \in Process, at'[q] # "idle", at'[r] # "idle", doing'[r].run = doing'[q].run
          PROVE  r = q
      BY <1>1, <1>2, <2>4, <3>1, <3>2 DEF RunsDiffer
    <3>3. ASSUME NEW k \in Keys PROVE removal'[k] \subseteq 1 .. runs'
      BY <1>1, <1>2, <2>5 DEF RunsDiffer
    <3>4. ASSUME NEW k \in Keys, NEW f \in parquet[k] PROVE f.run <= runs'
      <4>1. f.run \in Nat /\ f.run <= runs
        BY <1>1, <3>4 DEF RunsDiffer, TokenTypeOK, TokenFile
      <4> QED
        BY <1>2, <4>1
    <3> QED
      BY <1>2, <3>1, <3>2, <3>3, <3>4 DEF RunsDiffer
  <2>7. OnlyActs(p) /\ FilesGrow /\ NewFilesOwn(p)
    BY <1>2, <2>4, <2>5 DEF OnlyActs, FilesGrow, NewFilesOwn
  <2>8. JobKey(p)' = key
    BY <2>4 DEF JobKey
  <2>9. Removing(p)'
    <3> SUFFICES ASSUME at'[p] = "remove", NEW f \in Entries(key) PROVE f.run < runs + 1
      BY <2>4, <2>8 DEF Removing
    <3>1. CASE f \in parquet[key]
      <4>1. f.run \in Nat /\ f.run <= runs
        BY <1>1, <1>2, <3>1 DEF RunsDiffer, TokenTypeOK, TokenFile
      <4> QED
        BY <1>2, <4>1
    <3>2. CASE f = MetaEntry
      BY <1>2, <3>2 DEF MetaEntry
    <3> QED
      BY <3>1, <3>2 DEF Entries
  <2>10. ASSUME NEW x \in Part PROVE Writing(p, x)'
    <3>1. Own(p, x)'.run = runs + 1
      BY <2>4 DEF Own
    <3>2. Own(p, x)' \notin parquet[key]
      <4>1. \A f \in parquet[key] : f.run \in Nat /\ f.run <= runs
        BY <1>1, <1>2 DEF RunsDiffer, TokenTypeOK, TokenFile
      <4> QED
        BY <1>2, <3>1, <4>1
    <3> QED
      BY <1>2, <2>4, <2>8, <3>2 DEF Writing
  <2>11. DirectoriesHold'
    BY <1>1, <1>2, <2>1, <2>5 DEF DirectoriesHold, Settled, Parts, WholeFiles
  <2> QED
    BY <2>3, <2>6, <2>7, <2>9, <2>10, <2>11, OthersKeep DEF TokenInv
<1> QED
  BY <1>3, <1>4

(* An entry is unlinked: what was kept there is removed by a later run.    *)
LEMMA UnlinkKeeps ==
  ASSUME TokenInv, NEW p \in Process, NEW e \in listing[p], Unlink(p, e)
  PROVE  TokenInv'
<1> DEFINE key == JobKey(p)
           n == doing[p].run
<1>1. TokenTypeOK /\ RunsDiffer /\ DirectoriesHold /\ Removing(p)
  BY DEF TokenInv
<1>2. /\ at[p] = "remove" /\ UNCHANGED <<at, doing, progress, runs, printed, removal>>
      /\ listing' = [listing EXCEPT ![p] = @ \ {e}]
      /\ key \in Keys /\ n \in Nat \ {0} /\ n \in removal[key] /\ e.run < n
  BY <1>1, JobKeys DEF Unlink, Removing
<1>3. ASSUME NEW k \in Keys
      PROVE  /\ parquet'[k] = IF k = key THEN parquet[k] \ {e} ELSE parquet[k]
             /\ partial'[k] \subseteq partial[k] /\ (k # key => partial'[k] = partial[k])
             /\ partial'[k] = IF k = key THEN partial[k] \ {e} ELSE partial[k]
             /\ meta'[k] \in {meta[k], NoMeta}
  <2>1. CASE e = MetaEntry
    <3>1. /\ parquet' = parquet /\ partial' = partial /\ meta' = [meta EXCEPT ![key] = NoMeta]
      BY <2>1 DEF Unlink
    <3>2. e \notin parquet[k] /\ e \notin partial[k]
      <4>1. e.part = "metadata.json" /\ e.run = 0 /\ e.setting = NoMeta
        BY <2>1 DEF MetaEntry
      <4>2. NoMeta \notin Setting
        BY SettingAssumption DEF NoMeta
      <4> QED
        BY <1>1, <4>1, <4>2 DEF TokenTypeOK, TokenFile
    <3> QED
      BY <1>1, <3>1, <3>2 DEF TokenTypeOK
  <2>2. CASE e # MetaEntry
    BY <1>1, <2>2 DEF Unlink, TokenTypeOK
  <2> QED
    BY <2>1, <2>2
<1>4. TokenTypeOK'
  <2>1. parquet' \in [Keys -> SUBSET TokenFile] /\ partial' \in [Keys -> SUBSET TokenFile]
    <3>1. \/ parquet' = parquet /\ partial' = partial
          \/ parquet' = [parquet EXCEPT ![key] = @ \ {e}] /\ partial' = [partial EXCEPT ![key] = @ \ {e}]
      BY DEF Unlink
    <3>2. parquet \in [Keys -> SUBSET TokenFile] /\ partial \in [Keys -> SUBSET TokenFile]
      BY <1>1 DEF TokenTypeOK
    <3> QED
      BY <3>1, <3>2
  <2>2. meta' \in [Keys -> Setting \cup {NoMeta, TornMeta}]
    BY <1>1 DEF Unlink, TokenTypeOK
  <2>3. listing' \in [Process -> SUBSET (TokenFile \cup {MetaEntry})]
    BY <1>1, <1>2 DEF TokenTypeOK
  <2> QED
    BY <1>1, <1>2, <2>1, <2>2, <2>3 DEF TokenTypeOK
<1>5. RunsDiffer'
  BY <1>1, <1>2, <1>3 DEF RunsDiffer
<1>6. DirectoriesHold'
  <2>1. \A k \in Keys : meta'[k] \in Setting => meta[k] \in Setting
    BY <1>3, SettingAssumption DEF NoMeta
  <2>2. ASSUME NEW k \in Keys, Settled(k)' PROVE Settled(k) /\ Parts(k)' = Parts(k)
    <3>1. Settled(k) /\ removal[k] = {}
      BY <1>2, <2>2 DEF Settled
    <3>2. k # key
      BY <1>2, <3>1
    <3> QED
      BY <1>3, <3>1, <3>2 DEF Parts, WholeFiles
  <2>3. \A k \in Keys : parquet'[k] \subseteq parquet[k]
    BY <1>3
  <2>4. \A k \in Keys : \A f \in parquet'[k] : Key(f.setting) = k
    BY <1>1, <2>3 DEF DirectoriesHold
  <2>5. \A k \in Keys : meta'[k] \in Setting => k \in printed'
    BY <1>1, <1>2, <2>1 DEF DirectoriesHold
  <2>6. \A k \in Keys : Settled(k)' => Part \subseteq Parts(k)'
    BY <1>1, <2>2 DEF DirectoriesHold
  <2> QED
    BY <2>4, <2>5, <2>6 DEF DirectoriesHold
<1>7. ASSUME NEW q \in Process PROVE Removing(q)'
  <2>1. listing'[q] \subseteq listing[q] /\ JobKey(q)' = JobKey(q) /\ Removing(q)
    BY <1>1, <1>2 DEF TokenInv, TokenTypeOK, JobKey
  <2> QED
    BY <1>2, <2>1 DEF Removing
<1>8. ASSUME NEW q \in Process, NEW x \in Part PROVE Writing(q, x)'
  <2>1. CASE at[q] = "idle"
    BY <1>2, <2>1 DEF Writing
  <2>2. CASE at[q] # "idle"
    <3>1. /\ JobKey(q) \in Keys /\ JobKey(q)' = JobKey(q) /\ Own(q, x)' = Own(q, x)
          /\ Own(q, x).run = doing[q].run /\ doing[q].run \in Nat
      BY <1>1, <1>2, <2>2, JobKeys DEF JobKey, Own
    <3>2. Writing(q, x)
      BY DEF TokenInv
    <3>3. ASSUME PartKept(q, x) PROVE PartKept(q, x)'
      <4>1. CASE JobKey(q) = key /\ doing[q].run < n
        BY <1>2, <3>1, <4>1 DEF PartKept
      <4>2. CASE JobKey(q) # key \/ ~(doing[q].run < n)
        <5>1. CASE Own(q, x) \in parquet[JobKey(q)]
          <6>1. Own(q, x) \in parquet'[JobKey(q)]
            BY <1>2, <1>3, <3>1, <4>2, <5>1
          <6> QED
            BY <3>1, <6>1 DEF PartKept
        <5>2. CASE Since(doing[q].run, x, JobKey(q))
          <6>1. PICK f \in WholeFiles(JobKey(q)) : f.part = x /\ f.run >= doing[q].run
            BY <5>2 DEF Since
          <6>2. f \in TokenFile /\ f.run \in Nat
            BY <1>1, <3>1 DEF WholeFiles, TokenTypeOK, TokenFile
          <6>3. JobKey(q) = key => f # e
            BY <1>2, <3>1, <4>2, <6>1, <6>2
          <6>4. f \in parquet'[JobKey(q)] \ partial'[JobKey(q)]
            BY <1>3, <3>1, <6>1, <6>3 DEF WholeFiles
          <6> QED
            BY <1>2, <3>1, <6>1, <6>4 DEF PartKept, Since, WholeFiles
        <5>3. CASE \E r \in removal[JobKey(q)] : r > doing[q].run
          BY <1>2, <3>1, <5>3 DEF PartKept
        <5> QED
          BY <3>3, <5>1, <5>2, <5>3 DEF PartKept
      <4> QED
        BY <4>1, <4>2
    <3>4. parquet'[JobKey(q)] \subseteq parquet[JobKey(q)] /\ partial'[JobKey(q)] \subseteq partial[JobKey(q)]
      BY <1>3, <3>1
    <3> QED
      BY <1>2, <3>1, <3>2, <3>3, <3>4 DEF Writing
  <2> QED
    BY <2>1, <2>2
<1> QED
  BY <1>4, <1>5, <1>6, <1>7, <1>8 DEF TokenInv

(* A part is begun.                                                        *)
LEMMA OpenPartKeeps ==
  ASSUME TokenInv, NEW p \in Process, NEW x \in Part, OpenPart(p, x)
  PROVE  TokenInv'
<1> DEFINE key == JobKey(p)
           own == Own(p, x)
<1>1. TokenTypeOK /\ RunsDiffer /\ DirectoriesHold /\ Writing(p, x)
  BY DEF TokenInv
<1>2. /\ at[p] = "write" /\ progress[p][x] = "todo" /\ progress' = [progress EXCEPT ![p][x] = "open"]
      /\ UNCHANGED <<meta, at, doing, listing, runs, printed, removal>>
      /\ parquet' = [parquet EXCEPT ![key] = @ \cup {own}] /\ partial' = [partial EXCEPT ![key] = @ \cup {own}]
  BY DEF OpenPart
<1>3. /\ key \in Keys /\ Key(doing[p].setting) = key /\ own \in TokenFile /\ own.run = doing[p].run
      /\ own.setting = doing[p].setting /\ own \notin parquet[key]
      /\ \A y \in Part : Own(p, y)' = Own(p, y) /\ Own(p, y).part = y
  BY <1>1, <1>2, JobKeys DEF Writing, Own
<1>4. own.part = x
  BY <1>3
<1> HIDE DEF own
<1>5. \A k \in Keys : /\ parquet'[k] = IF k = key THEN parquet[k] \cup {own} ELSE parquet[k]
                      /\ partial'[k] = IF k = key THEN partial[k] \cup {own} ELSE partial[k]
  BY <1>1, <1>2 DEF TokenTypeOK
<1>6. TokenTypeOK'
  BY <1>1, <1>2, <1>3 DEF TokenTypeOK
<1>7. RunsDiffer'
  <2>1. own.run <= runs
    BY <1>1, <1>2, <1>3 DEF RunsDiffer, TokenTypeOK
  <2> QED
    BY <1>1, <1>2, <1>3, <1>5, <2>1 DEF RunsDiffer
<1>8. FilesGrow /\ NewFilesOwn(p) /\ OnlyActs(p)
  <2>1. FilesGrow
    BY <1>2, <1>3, <1>5 DEF FilesGrow
  <2>2. NewFilesOwn(p)
    BY <1>2, <1>3, <1>5 DEF NewFilesOwn
  <2>3. \A q \in Process : q # p => progress'[q] = progress[q]
    BY <1>1, <1>2 DEF TokenTypeOK
  <2> QED
    BY <1>2, <2>1, <2>2, <2>3 DEF OnlyActs
<1>9. DirectoriesHold'
  <2>1. \A k \in Keys : Parts(k) \subseteq Parts(k)'
    BY <1>8 DEF FilesGrow, Parts, WholeFiles
  <2> QED
    BY <1>1, <1>2, <1>3, <1>5, <2>1 DEF DirectoriesHold, Settled
<1>10. JobKey(p)' = key
  BY <1>2 DEF JobKey
<1>11. Removing(p)'
  BY <1>2 DEF Removing
<1>12. ASSUME NEW y \in Part PROVE Writing(p, y)'
  <2>1. progress'[p][y] = IF y = x THEN "open" ELSE progress[p][y]
    BY <1>1, <1>2 DEF TokenTypeOK
  <2>2. CASE y = x
    <3>1. own \in parquet'[key] /\ own = Own(p, y)'
      BY <1>3, <1>5, <2>2 DEF own
    <3>2. PartKept(p, y)'
      BY <1>10, <3>1 DEF PartKept
    <3> QED
      BY <1>2, <1>10, <2>1, <2>2, <3>2 DEF Writing
  <2>3. CASE y # x
    <3>1. Writing(p, y) /\ Own(p, y)' = Own(p, y) /\ Own(p, y) # own
      BY <1>3, <1>4, <2>3 DEF TokenInv
    <3>2. PartKept(p, y) => PartKept(p, y)'
      BY <1>2, <1>3, <1>8, PartKeptStays
    <3> QED
      BY <1>2, <1>3, <1>5, <1>10, <2>1, <2>3, <3>1, <3>2 DEF Writing
  <2> QED
    BY <2>2, <2>3
<1> QED
  BY <1>6, <1>7, <1>8, <1>9, <1>11, <1>12, OthersKeep DEF TokenInv

(* A part is written to its end.                                           *)
LEMMA WritePartKeeps ==
  ASSUME TokenInv, NEW p \in Process, NEW x \in Part, WritePart(p, x)
  PROVE  TokenInv'
<1> DEFINE key == JobKey(p)
           own == Own(p, x)
<1>1. TokenTypeOK /\ RunsDiffer /\ DirectoriesHold
  BY DEF TokenInv
<1>2. /\ at[p] = "write" /\ progress[p][x] = "open" /\ progress' = [progress EXCEPT ![p][x] = "closed"]
      /\ UNCHANGED <<parquet, meta, at, doing, listing, runs, printed, removal>>
      /\ partial' = [partial EXCEPT ![key] = @ \ {own}]
  BY DEF WritePart
<1>3. key \in Keys /\ \A y \in Part : Own(p, y)' = Own(p, y)
  BY <1>1, <1>2, JobKeys DEF Own
<1> HIDE DEF own
<1>4. \A k \in Keys : partial'[k] = IF k = key THEN partial[k] \ {own} ELSE partial[k]
  BY <1>1, <1>2 DEF TokenTypeOK
<1>5. TokenTypeOK'
  BY <1>1, <1>2 DEF TokenTypeOK
<1>6. RunsDiffer'
  BY <1>1, <1>2 DEF RunsDiffer
<1>7. FilesGrow /\ NewFilesOwn(p) /\ OnlyActs(p)
  <2>1. FilesGrow /\ NewFilesOwn(p)
    BY <1>2, <1>4 DEF FilesGrow, NewFilesOwn
  <2>2. \A q \in Process : q # p => progress'[q] = progress[q]
    BY <1>1, <1>2 DEF TokenTypeOK
  <2> QED
    BY <1>2, <2>1, <2>2 DEF OnlyActs
<1>8. DirectoriesHold'
  <2>1. \A k \in Keys : Parts(k) \subseteq Parts(k)'
    BY <1>7 DEF FilesGrow, Parts, WholeFiles
  <2> QED
    BY <1>1, <1>2, <2>1 DEF DirectoriesHold, Settled
<1>9. JobKey(p)' = key
  BY <1>2 DEF JobKey
<1>10. Removing(p)'
  BY <1>2 DEF Removing
<1>11. ASSUME NEW y \in Part PROVE Writing(p, y)'
  <2>1. progress'[p][y] = IF y = x THEN "closed" ELSE progress[p][y]
    BY <1>1, <1>2 DEF TokenTypeOK
  <2>2. Writing(p, y) /\ Own(p, y)' = Own(p, y)
    BY <1>3 DEF TokenInv
  <2>3. PartKept(p, y) => PartKept(p, y)'
    BY <1>2, <1>3, <1>7, PartKeptStays
  <2>4. y = x => Own(p, y) \notin partial'[key]
    BY <1>3, <1>4 DEF own
  <2> QED
    BY <1>2, <1>3, <1>4, <1>9, <2>1, <2>2, <2>3, <2>4 DEF Writing
<1> QED
  BY <1>5, <1>6, <1>7, <1>8, <1>10, <1>11, OthersKeep DEF TokenInv

(* A run that only goes on or dies, or begins its metadata.                *)
LEMMA PlacesKeep ==
  ASSUME TokenInv, NEW p \in Process, RemoveDirectory(p) \/ OpenMetadata(p) \/ Die(p)
  PROVE  TokenInv'
<1>1. TokenTypeOK /\ RunsDiffer /\ DirectoriesHold
  BY DEF TokenInv
<1>2. PICK l \in {"write", "meta", "idle"} :
        /\ at[p] # "idle" /\ at' = [at EXCEPT ![p] = l] /\ (l = "meta" => at[p] = "write" /\ AllWritten(p))
        /\ UNCHANGED <<parquet, partial, doing, progress, listing, runs, printed, removal>>
        /\ meta' = meta \/ meta' = [meta EXCEPT ![JobKey(p)] = TornMeta]
  BY DEF RemoveDirectory, OpenMetadata, Die, Move
<1>3. JobKey(p) \in Keys
  BY <1>1, <1>2, JobKeys
<1>4. \A k \in Keys : meta'[k] \in Setting => meta[k] \in Setting
  BY <1>1, <1>2, <1>3, SettingAssumption DEF TokenTypeOK, TornMeta
<1>5. \A q \in Process : at'[q] = IF q = p THEN l ELSE at[q]
  BY <1>1, <1>2 DEF TokenTypeOK
<1>6. TokenTypeOK'
  BY <1>1, <1>2, <1>3 DEF TokenTypeOK, Places
<1>7. RunsDiffer'
  BY <1>1, <1>2, <1>5 DEF RunsDiffer
<1>8. DirectoriesHold'
  BY <1>1, <1>2, <1>4 DEF DirectoriesHold, Settled, Parts, WholeFiles
<1>9. FilesGrow /\ NewFilesOwn(p) /\ OnlyActs(p)
  BY <1>2, <1>5 DEF FilesGrow, NewFilesOwn, OnlyActs
<1>10. Removing(p)'
  BY <1>5 DEF Removing
<1>11. ASSUME NEW x \in Part PROVE Writing(p, x)'
  <2>1. Writing(p, x) /\ JobKey(p)' = JobKey(p) /\ Own(p, x)' = Own(p, x)
    BY <1>2 DEF TokenInv, JobKey, Own
  <2>2. PartKept(p, x) => PartKept(p, x)'
    BY <1>2, <1>3, <1>9, PartKeptStays
  <2>3. l = "meta" => progress[p][x] = "closed"
    BY <1>2 DEF AllWritten
  <2> QED
    BY <1>2, <1>5, <2>1, <2>2, <2>3 DEF Writing
<1> QED
  BY <1>6, <1>7, <1>8, <1>9, <1>10, <1>11, OthersKeep DEF TokenInv

(* A run that ends has kept every part, or a later removal was begun.      *)
LEMMA WriteMetadataKeeps ==
  ASSUME TokenInv, NEW p \in Process, WriteMetadata(p)
  PROVE  TokenInv'
<1> DEFINE key == JobKey(p)
           n == doing[p].run
<1>1. TokenTypeOK /\ RunsDiffer /\ DirectoriesHold
  BY DEF TokenInv
<1>2. /\ at[p] = "meta" /\ at' = [at EXCEPT ![p] = "idle"] /\ meta' = [meta EXCEPT ![key] = doing[p].setting]
      /\ printed' = printed \cup {key} /\ removal' = [removal EXCEPT ![key] = @ \ {n}]
      /\ UNCHANGED <<parquet, partial, doing, progress, listing, runs>>
      /\ key \in Keys /\ n \in Nat /\ doing[p].setting \in Setting
  BY <1>1, JobKeys DEF WriteMetadata, Move
<1>3. /\ \A q \in Process : at'[q] = IF q = p THEN "idle" ELSE at[q]
      /\ \A k \in Keys : /\ k # key => meta'[k] = meta[k]
                         /\ removal'[k] = IF k = key THEN removal[k] \ {n} ELSE removal[k]
  BY <1>1, <1>2 DEF TokenTypeOK
<1>4. TokenTypeOK'
  BY <1>1, <1>2 DEF TokenTypeOK, Places
<1>5. RunsDiffer'
  BY <1>1, <1>2, <1>3 DEF RunsDiffer
<1>6. \A q \in Process : JobKey(q)' = JobKey(q) /\ \A x \in Part : Own(q, x)' = Own(q, x)
  BY <1>2 DEF JobKey, Own
<1>7. ASSUME NEW x \in Part
      PROVE  Since(n, x, key) \/ \E r \in removal[key] : r > n
  <2>1. progress[p][x] = "closed" /\ Own(p, x) \notin partial[key] /\ PartKept(p, x)
    BY <1>2 DEF TokenInv, Writing
  <2>2. CASE Own(p, x) \in parquet[key]
    <3>1. Own(p, x) \in WholeFiles(key) /\ Own(p, x).part = x /\ Own(p, x).run >= n
      BY <1>1, <1>2, <2>1, <2>2, JobKeys DEF WholeFiles
    <3> QED
      BY <3>1 DEF Since
  <2> QED
    BY <2>1, <2>2 DEF PartKept
<1>8. DirectoriesHold'
  <2>1. \A k \in Keys : meta'[k] \in Setting => k \in printed'
    BY <1>1, <1>2, <1>3 DEF DirectoriesHold
  <2>2. ASSUME NEW k \in Keys, Settled(k)' PROVE Part \subseteq Parts(k)
    <3>1. CASE k = key
      <4>1. \A r \in removal[key] : r = n
        BY <1>2, <1>3, <2>2, <3>1 DEF Settled
      <4>2. \A x \in Part : Since(n, x, key)
        BY <1>2, <1>7, <4>1
      <4> QED
        BY <3>1, <4>2 DEF Since, Parts
    <3>2. CASE k # key
      BY <1>1, <1>2, <1>3, <2>2, <3>2 DEF DirectoriesHold, Settled
    <3> QED
      BY <3>1, <3>2
  <2>3. \A k \in Keys : Parts(k)' = Parts(k)
    BY <1>2 DEF Parts, WholeFiles
  <2> QED
    BY <1>1, <1>2, <2>1, <2>2, <2>3 DEF DirectoriesHold
<1>9. ASSUME NEW q \in Process PROVE Removing(q)'
  <2> SUFFICES ASSUME at'[q] = "remove" PROVE Removing(q)'
    BY DEF Removing
  <2>1. at[q] = "remove" /\ q # p /\ Removing(q) /\ JobKey(q) \in Keys /\ doing[q].run # n
    BY <1>1, <1>2, <1>3, JobKeys DEF TokenInv, RunsDiffer
  <2> QED
    BY <1>2, <1>3, <1>6, <2>1 DEF Removing
<1>10. ASSUME NEW q \in Process, NEW x \in Part PROVE Writing(q, x)'
  <2>1. CASE at'[q] = "idle"
    BY <2>1 DEF Writing
  <2>2. CASE at'[q] # "idle"
    <3>1. /\ at'[q] = at[q] /\ Writing(q, x) /\ JobKey(q) \in Keys /\ doing[q].run \in Nat
      BY <1>1, <1>3, <2>2, JobKeys DEF TokenInv
    <3>2. ASSUME PartKept(q, x) PROVE PartKept(q, x)'
      <4>1. CASE Own(q, x) \in parquet[JobKey(q)] \/ Since(doing[q].run, x, JobKey(q))
        BY <1>2, <1>6, <4>1 DEF PartKept, Since, WholeFiles
      <4>2. ASSUME NEW r \in removal[JobKey(q)], r > doing[q].run PROVE PartKept(q, x)'
        <5>1. CASE ~(JobKey(q) = key /\ r = n)
          BY <1>2, <1>3, <1>6, <3>1, <4>2, <5>1 DEF PartKept
        <5>2. CASE JobKey(q) = key /\ r = n
          <6>1. CASE Since(n, x, key)
            <7>1. PICK f \in WholeFiles(key) : f.part = x /\ f.run >= n
              BY <6>1 DEF Since
            <7>2. f.run \in Nat
              BY <1>1, <1>2 DEF WholeFiles, TokenTypeOK, TokenFile
            <7>3. f.run >= doing[q].run
              BY <1>2, <3>1, <4>2, <5>2, <7>1, <7>2
            <7>4. Since(doing[q].run, x, JobKey(q))
              BY <5>2, <7>1, <7>3 DEF Since
            <7> QED
              BY <4>1, <7>4
          <6>2. CASE \E m \in removal[key] : m > n
            <7>1. PICK m \in removal[key] : m > n
              BY <6>2
            <7>2. m \in Nat /\ m \in removal'[key] /\ m > doing[q].run
              BY <1>1, <1>2, <1>3, <3>1, <4>2, <5>2, <7>1 DEF TokenTypeOK
            <7> QED
              BY <1>2, <1>6, <5>2, <7>2 DEF PartKept
          <6> QED
            BY <1>7, <6>1, <6>2
        <5> QED
          BY <5>1, <5>2
      <4> QED
        BY <3>2, <4>1, <4>2 DEF PartKept
    <3> QED
      BY <1>2, <1>6, <3>1, <3>2 DEF Writing
  <2> QED
    BY <2>1, <2>2
<1> QED
  BY <1>4, <1>5, <1>8, <1>9, <1>10 DEF TokenInv

(* Every step of a command line keeps it, a crash at any of them too.      *)
LEMMA TokensKeep ==
  ASSUME TokenInv, [TokenNext]_tokenVars
  PROVE  TokenInv'
<1>1. CASE UNCHANGED tokenVars
  <2>1. UNCHANGED <<parquet, partial, meta, at, doing, progress, listing, runs, printed, removal>>
    BY <1>1 DEF tokenVars
  <2>2. TokenTypeOK' /\ RunsDiffer'
    BY <2>1 DEF TokenInv, TokenTypeOK, RunsDiffer
  <2>3. DirectoriesHold'
    BY <2>1 DEF TokenInv, DirectoriesHold, Settled, Parts, WholeFiles
  <2>4. \A p \in Process : Removing(p)' /\ \A x \in Part : Writing(p, x)'
    BY <2>1 DEF TokenInv, Removing, Writing, PartKept, Since, WholeFiles, Own, JobKey
  <2> QED
    BY <2>2, <2>3, <2>4 DEF TokenInv
<1> QED
  BY <1>1, VerifyKeeps, UnlinkKeeps, OpenPartKeeps, WritePartKeeps, PlacesKeep, WriteMetadataKeeps DEF TokenNext, RunsDone

(* What is printed is whole and of one setting.                            *)
LEMMA TokenInvSuffices == TokenInv => PrintedIsGood
<1> SUFFICES ASSUME TokenInv PROVE PrintedIsGood
  OBVIOUS
<1>1. PrintedIsWhole
  <2>1. \A key \in Keys : Parts(key) \subseteq Part
    BY DEF TokenInv, TokenTypeOK, TokenFile, Parts, WholeFiles
  <2> QED
    BY <2>1 DEF TokenInv, DirectoriesHold, PrintedIsWhole, Parts, WholeFiles
<1>2. PrintedIsAsAsked
  <2> SUFFICES ASSUME NEW key \in Keys, NEW f \in parquet[key], NEW g \in parquet[key]
               PROVE  f.setting = g.setting
    BY DEF PrintedIsAsAsked
  <2>1. f.setting \in Setting /\ g.setting \in Setting
    BY DEF TokenInv, TokenTypeOK, TokenFile
  <2>2. <<f.setting.verified, f.setting.hashed>> = <<g.setting.verified, g.setting.hashed>>
    BY DEF TokenInv, DirectoriesHold, Key
  <2> QED
    BY <2>1, <2>2, SettingAssumption
<1> QED
  BY <1>1, <1>2 DEF PrintedIsGood

(***************************************************************************)
(* The record of the MLflow UI                                             *)
(***************************************************************************)

(* Processes, places of a command and types.                               *)
Entry == [node : Node \cup {"none"}, port : Port \cup {0}, state : {"up", "zombie", "gone"}]
Started == {"start", "stop", "status", "banner"}
Answers == {"none", "already running", "error", "started", "exited", "nothing", "stopped",
            "not started", "running", "stale", "url", "not running"}
ShellState == [at : Started \cup {"prompt", "spawn", "record", "check", "terminate", "clear"},
               node : Node \cup {"none"}, port : Port \cup {0}, pid : Nat, result : Answers]

DashTypeOK ==
  /\ ui \in [Pids -> Entry]
  /\ IsFiniteSet(Pids) /\ Pids \subseteq Nat \ {0}
  /\ pidFile \in Nat
  /\ shell \in [Shell -> ShellState]
  /\ disturbed \in BOOLEAN

(* Commands one after the other, on one node: the UI that runs is the one  *)
(* of the record, or of the command that is about to record it; it has     *)
(* ended when the record is cleared or another is started.                 *)
Busy(s) == shell[s].at # "prompt"
OneAfterTheOther ==
  /\ \A s, t \in Shell : Busy(s) /\ Busy(t) => s = t
  /\ \A s \in Shell : Busy(s) => \A pid \in Pids : ui[pid].node = shell[s].node
  /\ (\A s \in Shell : shell[s].at \notin {"record", "spawn", "clear"}) => Running \subseteq {pidFile}
  /\ \A s \in Shell :
       /\ shell[s].at = "record" => Running \subseteq {shell[s].pid}
       /\ shell[s].at \in {"spawn", "clear"} => Running = {}
       /\ shell[s].at = "terminate" => shell[s].pid = pidFile

(* The inductive invariant of the record.                                  *)
DashInv == DashTypeOK /\ (~disturbed => OneAfterTheOther)

(* It holds before the first command.                                      *)
LEMMA DashStarts == DashInit => DashInv
<1> SUFFICES ASSUME DashInit PROVE DashInv
  OBVIOUS
<1>1. Pids = {}
  BY DEF DashInit, Pids
<1>2. IsFiniteSet(Pids)
  BY <1>1, FS_EmptySet
<1>3. Free \in ShellState
  BY DEF Free, ShellState, Answers
<1>4. ui \in [Pids -> Entry]
  BY <1>1 DEF DashInit
<1>5. shell \in [Shell -> ShellState] /\ \A s \in Shell : shell[s] = Free
  BY <1>3 DEF DashInit
<1>6. DashTypeOK
  BY <1>1, <1>2, <1>4, <1>5 DEF DashInit, DashTypeOK
<1>7. Running = {}
  BY <1>1 DEF Running
<1> QED
  BY <1>1, <1>5, <1>6, <1>7 DEF DashInit, DashInv, OneAfterTheOther, Busy, Free

(* A step of a command, which may change the record and the processes: the *)
(* record stays good if it is good for that command and its next place.    *)
LEMMA CommandSteps ==
  ASSUME DashInv, NEW s \in Shell, Busy(s),
         ui' \in [Pids' -> Entry], IsFiniteSet(Pids'), Pids' \subseteq Nat \ {0}, pidFile' \in Nat,
         disturbed' \in BOOLEAN, ~disturbed' => ~disturbed,
         NEW e \in ShellState, shell' = [shell EXCEPT ![s] = e],
         ~disturbed' =>
           /\ \A pid \in Pids' : ui'[pid].node = shell[s].node
           /\ e.at # "prompt" => e.node = shell[s].node
           /\ CASE e.at = "record" -> Running' \subseteq {e.pid}
                [] e.at \in {"spawn", "clear"} -> Running' = {}
                [] e.at = "terminate" -> e.pid = pidFile' /\ Running' \subseteq {pidFile'}
                [] OTHER -> Running' \subseteq {pidFile'}
  PROVE  DashInv'
<1>1. shell' \in [Shell -> ShellState] /\ \A t \in Shell : shell'[t] = IF t = s THEN e ELSE shell[t]
  BY DEF DashInv, DashTypeOK
<1>2. DashTypeOK'
  BY <1>1 DEF DashTypeOK
<1>3. ASSUME ~disturbed' PROVE OneAfterTheOther'
  <2>1. ~disturbed /\ OneAfterTheOther
    BY <1>3 DEF DashInv
  <2>2. \A t \in Shell : t # s => shell'[t].at = "prompt"
    BY <1>1, <2>1 DEF OneAfterTheOther, Busy
  <2>3. /\ e.at = "record" => Running' \subseteq {e.pid}
        /\ e.at \in {"spawn", "clear"} => Running' = {}
        /\ e.at = "terminate" => e.pid = pidFile'
        /\ e.at \notin {"record", "spawn", "clear"} => Running' \subseteq {pidFile'}
    BY <1>3
  <2>4. e.at # "prompt" => \A pid \in Pids' : ui'[pid].node = e.node
    BY <1>3
  <2>5. shell'[s] = e
    BY <1>1
  <2>6. \A t, u \in Shell : shell'[t].at # "prompt" /\ shell'[u].at # "prompt" => t = u
    BY <2>2
  <2>7. \A t \in Shell : shell'[t].at # "prompt" => \A pid \in Pids' : ui'[pid].node = shell'[t].node
    BY <2>2, <2>4, <2>5
  <2>8. (\A t \in Shell : shell'[t].at \notin {"record", "spawn", "clear"}) => Running' \subseteq {pidFile'}
    BY <2>3, <2>5
  <2>9. \A t \in Shell :
          /\ shell'[t].at = "record" => Running' \subseteq {shell'[t].pid}
          /\ shell'[t].at \in {"spawn", "clear"} => Running' = {}
          /\ shell'[t].at = "terminate" => shell'[t].pid = pidFile'
    BY <2>2, <2>3, <2>5
  <2> QED
    BY <2>6, <2>7, <2>8, <2>9 DEF OneAfterTheOther, Busy
<1> QED
  BY <1>2, <1>3 DEF DashInv

(* A step of a command that leaves the processes and the record alone.     *)
LEMMA OnlyShell ==
  ASSUME DashInv, NEW s \in Shell, Busy(s), UNCHANGED <<ui, pidFile>>,
         disturbed' \in BOOLEAN, ~disturbed' => ~disturbed,
         NEW e, shell' = [shell EXCEPT ![s] = e],
         e \in ShellState,
         e.at # "prompt" => e.node = shell[s].node,
         ~disturbed' => CASE e.at = "record" -> FALSE
                          [] e.at \in {"spawn", "clear"} -> Running = {}
                          [] e.at = "terminate" -> e.pid = pidFile /\ Running \subseteq {pidFile}
                          [] OTHER -> Running \subseteq {pidFile}
  PROVE  DashInv'
<1>1. Running' = Running /\ Pids' = Pids
  BY DEF Running, Pids
<1>2. ui' \in [Pids' -> Entry] /\ IsFiniteSet(Pids') /\ Pids' \subseteq Nat \ {0} /\ pidFile' \in Nat
  BY <1>1 DEF DashInv, DashTypeOK
<1>3. ~disturbed' => \A pid \in Pids' : ui'[pid].node = shell[s].node
  BY <1>1 DEF DashInv, OneAfterTheOther
<1>4. ~disturbed' => CASE e.at = "record" -> Running' \subseteq {e.pid}
                       [] e.at \in {"spawn", "clear"} -> Running' = {}
                       [] e.at = "terminate" -> e.pid = pidFile' /\ Running' \subseteq {pidFile'}
                       [] OTHER -> Running' \subseteq {pidFile'}
  BY <1>1
<1> QED
  BY <1>2, <1>3, <1>4, CommandSteps

(* What is looked at leaves the table at most, what ends runs no more.     *)
LEMMA ReapedOrEnded ==
  ASSUME DashTypeOK
  PROVE  /\ \A s \in Shell : ui' = Reaped(ui, s) =>
              /\ Pids' = Pids /\ ui' \in [Pids -> Entry] /\ Running' = Running
              /\ \A pid \in Pids : ui'[pid].node = ui[pid].node
         /\ \A p \in Pids : ui' = Ended(p) =>
              /\ Pids' = Pids /\ ui' \in [Pids -> Entry] /\ Running' = Running \ {p}
              /\ \A pid \in Pids : ui'[pid].node = ui[pid].node
<1>1. ui \in [Pids -> Entry] /\ DOMAIN ui = Pids /\ \A pid \in Pids : ui[pid] \in Entry
  BY DEF DashTypeOK, Pids
<1>2. ASSUME NEW s \in Shell, ui' = Reaped(ui, s)
      PROVE  /\ Pids' = Pids /\ ui' \in [Pids -> Entry] /\ Running' = Running
             /\ \A pid \in Pids : ui'[pid].node = ui[pid].node
  <2>1. /\ DOMAIN ui' = Pids
        /\ ui' = [pid \in Pids |-> IF pid = shell[s].pid /\ ui[pid].state = "zombie"
                                   THEN [ui[pid] EXCEPT !.state = "gone"] ELSE ui[pid]]
    BY <1>1, <1>2 DEF Reaped
  <2>2. \A pid \in Pids : /\ ui'[pid] \in Entry /\ ui'[pid].node = ui[pid].node
                          /\ ui'[pid].state = "up" <=> ui[pid].state = "up"
    BY <1>1, <2>1 DEF Entry
  <2> QED
    BY <2>1, <2>2 DEF Running, Pids
<1>3. ASSUME NEW p \in Pids, ui' = Ended(p)
      PROVE  /\ Pids' = Pids /\ ui' \in [Pids -> Entry] /\ Running' = Running \ {p}
             /\ \A pid \in Pids : ui'[pid].node = ui[pid].node
  <2> DEFINE left == IF ParentLives(p) THEN "zombie" ELSE "gone"
  <2>1. ui' = [ui EXCEPT ![p].state = left] /\ left \in {"zombie", "gone"}
    BY <1>3 DEF Ended
  <2> HIDE DEF left
  <2>2. DOMAIN ui' = Pids /\ \A pid \in Pids : ui'[pid] = IF pid = p THEN [ui[p] EXCEPT !.state = left] ELSE ui[pid]
    BY <1>1, <2>1
  <2>3. \A pid \in Pids : /\ ui'[pid] \in Entry /\ ui'[pid].node = ui[pid].node
                          /\ ui'[pid].state = "up" <=> pid # p /\ ui[pid].state = "up"
    BY <1>1, <2>1, <2>2 DEF Entry
  <2>4. ui' \in [Pids -> Entry]
    BY <2>1, <2>2, <2>3
  <2> QED
    BY <2>2, <2>3, <2>4 DEF Running, Pids
<1> QED
  BY <1>2, <1>3

(* Every step of a command keeps it, and the end of a UI at any time.      *)
LEMMA DashKeeps ==
  ASSUME DashInv, [DashNext]_dashVars
  PROVE  DashInv'
<1>1. /\ DashTypeOK /\ (~disturbed => OneAfterTheOther) /\ disturbed \in BOOLEAN
      /\ \A s \in Shell : shell[s] \in ShellState
      /\ shell \in [Shell -> ShellState]
  BY DEF DashInv, DashTypeOK
<1>2. ASSUME NEW s \in Shell, NEW a \in Started, NEW n \in Node, NEW p \in Port, Command(s, a, n, p)
      PROVE  DashInv'
  <2>1. /\ UNCHANGED <<ui, pidFile>>
        /\ shell' = [shell EXCEPT ![s] = [Free EXCEPT !.at = a, !.node = n, !.port = p]]
        /\ disturbed' = (disturbed \/ OtherNode(n) \/ \E t \in Shell : shell[t].at /= "prompt")
    BY <1>2 DEF Command
  <2> DEFINE e == [Free EXCEPT !.at = a, !.node = n, !.port = p]
  <2>2. shell' = [shell EXCEPT ![s] = e] /\ e \in ShellState
    BY <2>1 DEF Free, ShellState, Answers
  <2>3. DashTypeOK'
    BY <1>1, <2>1, <2>2 DEF DashTypeOK, Pids
  <2>4. ASSUME ~disturbed' PROVE OneAfterTheOther'
    <3>1. /\ ~disturbed /\ OneAfterTheOther /\ ~OtherNode(n) /\ \A t \in Shell : shell[t].at = "prompt"
      BY <1>1, <2>1, <2>4
    <3>2. /\ \A t \in Shell : shell'[t] = IF t = s THEN e ELSE shell[t]
          /\ Running' = Running /\ Pids' = Pids
      BY <1>1, <2>1, <2>2 DEF Running, Pids
    <3>3. Running \subseteq {pidFile} /\ \A pid \in Pids : ui[pid].node = n
      BY <3>1 DEF OneAfterTheOther, OtherNode
    <3>4. e.at = a /\ e.node = n /\ a \notin {"prompt", "record", "spawn", "clear", "terminate"}
      BY DEF Started, Free
    <3> HIDE DEF e
    <3> QED
      BY <2>1, <3>1, <3>2, <3>3, <3>4 DEF OneAfterTheOther, Busy
  <2> QED
    BY <2>3, <2>4 DEF DashInv
<1>3. ASSUME NEW s \in Shell, ~disturbed, Busy(s)
      PROVE  /\ \A t \in Shell : Busy(t) => t = s
             /\ \A pid \in Pids : ui[pid].node = shell[s].node
             /\ shell[s].at \notin {"record", "spawn", "clear"} => Running \subseteq {pidFile}
  <2>1. OneAfterTheOther
    BY <1>1, <1>3
  <2>2. \A t \in Shell : t # s => shell[t].at = "prompt"
    BY <1>3, <2>1 DEF OneAfterTheOther, Busy
  <2> QED
    BY <1>3, <2>1, <2>2 DEF OneAfterTheOther, Busy
<1>4. ASSUME NEW s \in Shell, NEW alive \in Alive(pidFile, shell[s].node), ~disturbed, Busy(s), ~alive,
             Running \subseteq {pidFile}
      PROVE  Running = {}
  <2>1. ~InTable(pidFile, shell[s].node)
    BY <1>4 DEF Alive
  <2>2. pidFile \in Pids => ui[pidFile].state = "gone"
    BY <1>3, <1>4, <2>1 DEF InTable
  <2> QED
    BY <1>4, <2>2 DEF Running
<1>5. ASSUME NEW s \in Shell, NEW text \in Answers, Busy(s), Reply(s, text),
             UNCHANGED <<ui, pidFile>>, disturbed' \in BOOLEAN, ~disturbed' => ~disturbed,
             ~disturbed' => Running \subseteq {pidFile}
      PROVE  DashInv'
  <2> DEFINE e == [Free EXCEPT !.result = text, !.pid = shell[s].pid]
  <2>1. shell' = [shell EXCEPT ![s] = e] /\ e \in ShellState /\ e.at = "prompt"
    BY <1>1, <1>5 DEF Reply, Free, ShellState
  <2> HIDE DEF e
  <2> QED
    BY <1>5, <2>1, OnlyShell
<1>6. ASSUME NEW s \in Shell, NEW l \in {"spawn", "terminate", "clear"}, NEW pid \in {shell[s].pid, pidFile}, Busy(s),
             shell' = [shell EXCEPT ![s].at = l, ![s].pid = pid],
             UNCHANGED <<ui, pidFile>>, disturbed' \in BOOLEAN, ~disturbed' => ~disturbed,
             ~disturbed' => IF l = "terminate" THEN pid = pidFile /\ Running \subseteq {pidFile} ELSE Running = {}
      PROVE  DashInv'
  <2> DEFINE e == [shell[s] EXCEPT !.at = l, !.pid = pid]
  <2>1. shell' = [shell EXCEPT ![s] = e] /\ e \in ShellState /\ e.at = l /\ e.node = shell[s].node /\ e.pid = pid
    BY <1>1, <1>6 DEF DashTypeOK, ShellState
  <2> HIDE DEF e
  <2> QED
    BY <1>6, <2>1, OnlyShell
<1>7. ASSUME NEW s \in Shell, StartChecks(s)
      PROVE  DashInv'
  <2>1. shell[s].at = "start" /\ Busy(s) /\ UNCHANGED <<ui, pidFile>>
    BY <1>7 DEF StartChecks, Busy
  <2>2. CASE pidFile = 0
    <3>1. shell' = [shell EXCEPT ![s].at = "spawn", ![s].pid = shell[s].pid] /\ disturbed' = disturbed
      BY <1>1, <1>7, <2>2 DEF StartChecks, At, ShellState
    <3>2. ~disturbed => Running = {}
      BY <1>1, <1>3, <2>1, <2>2 DEF DashTypeOK, Running
    <3> QED
      BY <1>1, <1>6, <2>1, <3>1, <3>2
  <2>3. ASSUME pidFile # 0, NEW alive \in Alive(pidFile, shell[s].node), Mistaken(pidFile, shell[s].node, alive),
               IF alive THEN Reply(s, "already running") ELSE At(s, "spawn")
        PROVE  DashInv'
    <3>1. disturbed' \in BOOLEAN /\ (~disturbed' => ~disturbed)
      BY <1>1, <2>3 DEF Mistaken
    <3>2. ~disturbed => Running \subseteq {pidFile}
      BY <1>3, <2>1
    <3>3. CASE alive
      BY <1>5, <2>1, <2>3, <3>1, <3>2, <3>3 DEF Answers
    <3>4. CASE ~alive
      <4>1. shell' = [shell EXCEPT ![s].at = "spawn", ![s].pid = shell[s].pid]
        BY <1>1, <2>3, <3>4 DEF At, ShellState
      <4>2. ~disturbed => Running = {}
        BY <1>4, <2>1, <3>2, <3>4
      <4> QED
        BY <1>6, <2>1, <3>1, <4>1, <4>2
    <3> QED
      BY <3>3, <3>4
  <2> QED
    BY <1>7, <2>2, <2>3 DEF StartChecks
<1>8. ASSUME NEW s \in Shell, CannotStart(s)
      PROVE  DashInv'
  <2>1. shell[s].at = "spawn" /\ Busy(s) /\ UNCHANGED <<ui, pidFile, disturbed>> /\ Reply(s, "error")
    BY <1>8 DEF CannotStart, Busy
  <2>2. ~disturbed => Running = {}
    BY <1>1, <2>1 DEF OneAfterTheOther
  <2> QED
    BY <1>1, <1>5, <2>1, <2>2 DEF Answers
<1>9. ASSUME NEW s \in Shell, StopChecks(s)
      PROVE  DashInv'
  <2>1. shell[s].at = "stop" /\ Busy(s) /\ UNCHANGED <<ui, pidFile>>
    BY <1>9 DEF StopChecks, Busy
  <2>2. ~disturbed => Running \subseteq {pidFile}
    BY <1>3, <2>1
  <2>3. CASE pidFile = 0
    <3>1. Reply(s, "nothing") /\ disturbed' = disturbed
      BY <1>9, <2>3 DEF StopChecks
    <3> QED
      BY <1>1, <1>5, <2>1, <2>2, <3>1 DEF Answers
  <2>4. ASSUME pidFile # 0, NEW alive \in Alive(pidFile, shell[s].node), Mistaken(pidFile, shell[s].node, alive),
               shell' = [shell EXCEPT ![s].at = IF alive THEN "terminate" ELSE "clear", ![s].pid = pidFile]
        PROVE  DashInv'
    <3>1. disturbed' \in BOOLEAN /\ (~disturbed' => ~disturbed)
      BY <1>1, <2>4 DEF Mistaken
    <3>2. ~disturbed /\ ~alive => Running = {}
      BY <1>4, <2>1, <2>2, <2>4
    <3> DEFINE l == IF alive THEN "terminate" ELSE "clear"
    <3>3. l \in {"terminate", "clear"} /\ (l = "terminate" <=> alive)
      BY <2>4 DEF Alive
    <3>4. shell' = [shell EXCEPT ![s].at = l, ![s].pid = pidFile]
      BY <2>4
    <3> HIDE DEF l
    <3> QED
      BY <1>6, <2>1, <2>2, <3>1, <3>2, <3>3, <3>4
  <2> QED
    BY <1>9, <2>3, <2>4 DEF StopChecks
<1>10. ASSUME NEW s \in Shell, Status(s) \/ Banner(s)
       PROVE  DashInv'
  <2>1. shell[s].at \in {"status", "banner"} /\ Busy(s) /\ UNCHANGED <<ui, pidFile>>
    BY <1>10 DEF Status, Banner, Busy
  <2>2. ~disturbed => Running \subseteq {pidFile}
    BY <1>3, <2>1
  <2>3. PICK text \in Answers : Reply(s, text)
    <3>1. \E text \in {"not started", "running", "stale", "url", "not running"} : Reply(s, text)
      BY <1>10 DEF Status, Banner, Alive
    <3> QED
      BY <3>1 DEF Answers
  <2>4. disturbed' \in BOOLEAN /\ (~disturbed' => ~disturbed)
    BY <1>1, <1>10 DEF Status, Banner, Mistaken
  <2> QED
    BY <1>5, <2>1, <2>2, <2>3, <2>4
<1>11. ASSUME NEW s \in Shell, Spawn(s)
       PROVE  DashInv'
  <2> DEFINE new == Cardinality(Pids) + 1
             e == [shell[s] EXCEPT !.at = "record", !.pid = new]
             child == [node |-> shell[s].node, port |-> shell[s].port, state |-> "up"]
  <2>1. /\ shell[s].at = "spawn" /\ Busy(s) /\ UNCHANGED <<pidFile, disturbed>>
        /\ shell' = [shell EXCEPT ![s].at = "record", ![s].pid = new]
        /\ ui' = [pid \in Pids \cup {new} |-> IF pid \in Pids THEN ui[pid] ELSE child]
    <3>1. shell[s].at = "spawn" /\ UNCHANGED <<pidFile, disturbed>>
      BY <1>11 DEF Spawn
    <3>2. shell' = [shell EXCEPT ![s].at = "record", ![s].pid = new]
      BY <1>11 DEF Spawn
    <3>3. ui' = [p \in Pids \cup {new} |-> IF p \in Pids THEN ui[p] ELSE child]
      BY <1>11 DEF Spawn
    <3> QED
      BY <3>1, <3>2, <3>3 DEF Busy
  <2>2. new \in Nat \ {0}
    BY <1>1, FS_CardinalityType DEF DashTypeOK
  <2>3. child \in Entry /\ child.node = shell[s].node
    BY <1>1 DEF Entry, ShellState
  <2>4. shell' = [shell EXCEPT ![s] = e] /\ e \in ShellState /\ e.at = "record" /\ e.node = shell[s].node /\ e.pid = new
    BY <1>1, <2>1, <2>2 DEF ShellState
  <2> HIDE DEF new, e, child
  <2>5. Pids' = Pids \cup {new} /\ IsFiniteSet(Pids')
    BY <1>1, <2>1, FS_AddElement DEF DashTypeOK, Pids
  <2>6. ui' \in [Pids' -> Entry]
    BY <1>1, <2>1, <2>3, <2>5 DEF DashTypeOK
  <2>7. ~disturbed => /\ \A pid \in Pids' : ui'[pid].node = shell[s].node
                      /\ Running' \subseteq {new}
    <3>1. ASSUME ~disturbed PROVE Running = {} /\ \A pid \in Pids : ui[pid].node = shell[s].node
      BY <1>1, <1>3, <2>1, <3>1 DEF OneAfterTheOther
    <3> QED
      BY <2>1, <2>3, <2>5, <3>1 DEF Running
  <2> QED
    BY <1>1, <2>1, <2>2, <2>4, <2>5, <2>6, <2>7, CommandSteps DEF DashTypeOK
<1>12. ASSUME NEW s \in Shell, Record(s)
       PROVE  DashInv'
  <2> DEFINE e == [shell[s] EXCEPT !.at = "check"]
  <2>1. /\ shell[s].at = "record" /\ Busy(s) /\ UNCHANGED <<ui, disturbed>> /\ pidFile' = shell[s].pid
        /\ shell' = [shell EXCEPT ![s].at = "check"]
    BY <1>12 DEF Record, WritePid, At, Busy
  <2>2. shell' = [shell EXCEPT ![s] = e] /\ e \in ShellState /\ e.at = "check" /\ e.node = shell[s].node
    BY <1>1, <2>1 DEF ShellState
  <2> HIDE DEF e
  <2>3. Running' = Running /\ Pids' = Pids /\ pidFile' \in Nat
    BY <1>1, <2>1 DEF Running, Pids, ShellState
  <2>4. ~disturbed => Running' \subseteq {pidFile'} /\ \A pid \in Pids' : ui'[pid].node = shell[s].node
    BY <1>1, <1>3, <2>1, <2>3 DEF OneAfterTheOther
  <2> QED
    BY <1>1, <2>1, <2>2, <2>3, <2>4, CommandSteps DEF DashTypeOK
<1>13. ASSUME NEW s \in Shell, CheckStarted(s)
       PROVE  DashInv'
  <2>1. /\ shell[s].at = "check" /\ Busy(s) /\ UNCHANGED <<pidFile, disturbed>> /\ ui' = Reaped(ui, s)
        /\ \E text \in {"started", "exited"} : Reply(s, text)
    BY <1>13 DEF CheckStarted, Busy
  <2>2. PICK text \in {"started", "exited"} : Reply(s, text)
    BY <2>1
  <2> DEFINE e == [Free EXCEPT !.result = text, !.pid = shell[s].pid]
  <2>3. shell' = [shell EXCEPT ![s] = e] /\ e \in ShellState /\ e.at = "prompt"
    BY <1>1, <2>2 DEF Reply, Free, ShellState, Answers
  <2> HIDE DEF e
  <2>4. /\ Pids' = Pids /\ ui' \in [Pids -> Entry] /\ Running' = Running
        /\ \A pid \in Pids : ui'[pid].node = ui[pid].node
    BY <1>1, <2>1, ReapedOrEnded
  <2>5. ~disturbed => Running \subseteq {pidFile} /\ \A pid \in Pids : ui[pid].node = shell[s].node
    BY <1>3, <2>1
  <2> QED
    BY <1>1, <2>1, <2>3, <2>4, <2>5, CommandSteps DEF DashTypeOK
<1>14. ASSUME NEW s \in Shell, Terminate(s)
       PROVE  DashInv'
  <2> DEFINE e == [shell[s] EXCEPT !.at = "clear"]
             pid == shell[s].pid
  <2>1. /\ shell[s].at = "terminate" /\ Busy(s) /\ UNCHANGED pidFile
        /\ shell' = [shell EXCEPT ![s].at = "clear"]
        /\ ui' = IF InTable(pid, shell[s].node) THEN Ended(pid) ELSE ui
    BY <1>14 DEF Terminate, At, Busy
  <2>2. shell' = [shell EXCEPT ![s] = e] /\ e \in ShellState /\ e.at = "clear" /\ e.node = shell[s].node
    BY <1>1, <2>1 DEF ShellState
  <2>3. disturbed' \in BOOLEAN /\ (~disturbed' => ~disturbed)
    BY <1>1, <1>14 DEF Terminate, Mistaken
  <2> HIDE DEF e, pid
  <2>4. ASSUME ~disturbed
        PROVE  Running \subseteq {pid} /\ \A q \in Pids : ui[q].node = shell[s].node
    BY <1>1, <1>3, <2>1, <2>4 DEF OneAfterTheOther, pid
  <2>5. CASE InTable(pid, shell[s].node)
    <3>1. pid \in Pids /\ ui' = Ended(pid)
      BY <2>1, <2>5 DEF InTable
    <3>2. /\ Pids' = Pids /\ ui' \in [Pids -> Entry] /\ Running' = Running \ {pid}
          /\ \A q \in Pids : ui'[q].node = ui[q].node
      BY <1>1, <3>1, ReapedOrEnded
    <3>3. ~disturbed => Running' = {}
      BY <2>4, <3>2
    <3>4. ui' \in [Pids' -> Entry] /\ IsFiniteSet(Pids') /\ Pids' \subseteq Nat \ {0} /\ pidFile' \in Nat
      BY <1>1, <2>1, <3>2 DEF DashTypeOK
    <3>5. ~disturbed' => Running' = {} /\ \A q \in Pids' : ui'[q].node = shell[s].node
      BY <2>3, <2>4, <3>2, <3>3
    <3> QED
      BY <2>1, <2>2, <2>3, <3>4, <3>5, CommandSteps
  <2>6. CASE ~InTable(pid, shell[s].node)
    <3>1. ui' = ui /\ Pids' = Pids /\ Running' = Running
      BY <2>1, <2>6 DEF Pids, Running
    <3>2. ~disturbed => Running = {}
      BY <2>4, <2>6 DEF InTable, Running
    <3>3. shell[s].node = e.node /\ e.at \in {"spawn", "clear"}
      BY <2>2
    <3>4. ~disturbed' => Running = {} /\ \A q \in Pids : ui[q].node = shell[s].node
      BY <2>3, <2>4, <3>2
    <3> QED
      BY <1>1, <2>1, <2>2, <2>3, <3>1, <3>3, <3>4, OnlyShell
  <2> QED
    BY <2>5, <2>6
<1>15. ASSUME NEW s \in Shell, ClearPid(s)
       PROVE  DashInv'
  <2> DEFINE e == [Free EXCEPT !.result = "stopped", !.pid = shell[s].pid]
  <2>1. shell[s].at = "clear" /\ Busy(s) /\ UNCHANGED <<ui, disturbed>> /\ pidFile' = 0 /\ Reply(s, "stopped")
    BY <1>15 DEF ClearPid, Busy
  <2>2. shell' = [shell EXCEPT ![s] = e] /\ e \in ShellState /\ e.at = "prompt"
    BY <1>1, <2>1 DEF Reply, Free, ShellState, Answers
  <2> HIDE DEF e
  <2>3. Running' = Running /\ Pids' = Pids
    BY <2>1 DEF Running, Pids
  <2>4. ~disturbed => Running = {} /\ \A pid \in Pids : ui[pid].node = shell[s].node
    BY <1>1, <1>3, <2>1 DEF OneAfterTheOther
  <2> QED
    BY <1>1, <2>1, <2>2, <2>3, <2>4, CommandSteps DEF DashTypeOK
<1>16. ASSUME NEW p \in Pids, UiExits(p)
       PROVE  DashInv'
  <2>1. ui' = Ended(p) /\ UNCHANGED <<pidFile, shell, disturbed>>
    BY <1>16 DEF UiExits
  <2>2. /\ Pids' = Pids /\ ui' \in [Pids -> Entry] /\ Running' = Running \ {p}
        /\ \A pid \in Pids : ui'[pid].node = ui[pid].node
    BY <1>1, <2>1, ReapedOrEnded
  <2>3. DashTypeOK'
    BY <1>1, <2>1, <2>2 DEF DashTypeOK
  <2>4. ASSUME ~disturbed' PROVE OneAfterTheOther'
    <3>1. OneAfterTheOther /\ \A s \in Shell : Busy(s)' = Busy(s)
      BY <1>1, <2>1, <2>4 DEF Busy
    <3> QED
      BY <2>1, <2>2, <3>1 DEF OneAfterTheOther
  <2> QED
    BY <2>3, <2>4 DEF DashInv
<1>17. ASSUME NEW s \in Shell, Interrupt(s)
       PROVE  DashInv'
  <2> DEFINE e == [Free EXCEPT !.result = "none", !.pid = shell[s].pid]
  <2>1. disturbed' = TRUE /\ UNCHANGED pidFile /\ ui' = Reaped(ui, s) /\ Reply(s, "none") /\ Busy(s)
    BY <1>17 DEF Interrupt, Busy
  <2>2. shell' = [shell EXCEPT ![s] = e] /\ e \in ShellState
    BY <1>1, <2>1 DEF Reply, Free, ShellState, Answers
  <2> HIDE DEF e
  <2>3. Pids' = Pids /\ ui' \in [Pids -> Entry]
    BY <1>1, <2>1, ReapedOrEnded
  <2> QED
    BY <1>1, <2>1, <2>2, <2>3, CommandSteps DEF DashTypeOK
<1>18. CASE UNCHANGED dashVars
  <2>1. UNCHANGED <<ui, pidFile, shell, disturbed>>
    BY <1>18 DEF dashVars
  <2>2. Pids' = Pids /\ Running' = Running /\ \A s \in Shell : Busy(s)' = Busy(s)
    BY <2>1 DEF Pids, Running, Busy
  <2> QED
    BY <1>1, <2>1, <2>2 DEF DashInv, DashTypeOK, OneAfterTheOther
<1> QED
  BY <1>2, <1>7, <1>8, <1>9, <1>10, <1>11, <1>12, <1>13, <1>14, <1>15, <1>16, <1>17, <1>18
     DEF DashNext, DashDone, Started

(* The recorded UI is the one that runs.                                   *)
LEMMA DashInvSuffices == DashInv => RecordIsTrue
<1> SUFFICES ASSUME DashInv PROVE RecordIsTrue
  OBVIOUS
<1> SUFFICES ASSUME ~disturbed
             PROVE  Running \subseteq {pidFile} \cup Spawning /\ Cardinality(Running) <= 1
  BY DEF RecordIsTrue
<1>1. OneAfterTheOther /\ DashTypeOK
  BY DEF DashInv
<1>2. PICK x : Running \subseteq {x} /\ x \in {pidFile} \cup Spawning
  <2>1. CASE \E s \in Shell : shell[s].at = "record"
    BY <1>1, <2>1 DEF OneAfterTheOther, Spawning
  <2>2. CASE \A s \in Shell : shell[s].at # "record"
    <3>1. Running \subseteq {pidFile}
      BY <1>1, <2>2 DEF OneAfterTheOther
    <3> QED
      BY <3>1
  <2> QED
    BY <2>1, <2>2
<1>3. Cardinality(Running) <= 1
  <2>1. IsFiniteSet({x}) /\ Cardinality({x}) = 1
    BY FS_Singleton
  <2>2. Cardinality(Running) <= Cardinality({x})
    BY <1>2, <2>1, FS_Subset
  <2> QED
    BY <2>1, <2>2
<1> QED
  BY <1>2, <1>3

(***************************************************************************)
(* What later processes find on disk is true, however often a run crashed, *)
(* how many prepared the same data set at once, and whenever the UI ended: *)
(* a data set that was announced is there in all its parts, all of one     *)
(* setting, until some run removed it and failed to make it good; and for  *)
(* one command after the other the recorded UI is the one that runs.       *)
(***************************************************************************)
THEOREM FilesAlwaysTellTruth == MCSetupSpec => []FilesTellTruth
<1>1. MCSetupInit => TokenInv /\ DashInv
  BY TokensStart, DashStarts DEF MCSetupInit
<1>2. TokenInv /\ DashInv /\ [MCSetupNext]_mcVars => (TokenInv /\ DashInv)'
  BY OnlyOwnFiles, TokensKeep, DashKeeps
<1>3. TokenInv /\ DashInv => FilesTellTruth
  BY TokenInvSuffices, DashInvSuffices DEF FilesTellTruth
<1> QED
  BY <1>1, <1>2, <1>3, PTL DEF MCSetupSpec

(***************************************************************************)
(* From the file to the workers                                            *)
(***************************************************************************)

Kinds == {"plain", "text", "number", "flag", "list", "mapping", "lenient"}

(* Every field has a section and a way of reading, which gives its default *)
(* back.                                                                   *)
LEMMA SchemaHolds ==
  ASSUME NEW x \in Fields
  PROVE  /\ Schema[x].section \in Sections
         /\ Schema[x].kind \in Kinds
         /\ Schema[x].default \notin {"absent", "raises"}
         /\ Converted(Schema[x].kind, Schema[x].default) = Schema[x].default
<1> DEFINE Good(f) ==
      /\ f.section \in Sections
      /\ f.kind \in Kinds
      /\ f.default \notin {"absent", "raises"}
      /\ Converted(f.kind, f.default) = f.default
<1>1. ASSUME NEW y \in DOMAIN ModelSchema PROVE Good(ModelSchema[y])
  BY <1>1 DEF ModelSchema, Field, Sections, Kinds, Converted
<1>2. ASSUME NEW y \in DOMAIN ServeSchema PROVE Good(ServeSchema[y])
  BY <1>2 DEF ServeSchema, Field, Sections, Kinds, Converted
<1>3. ASSUME NEW y \in DOMAIN TrainSchema PROVE Good(TrainSchema[y])
  BY <1>3 DEF TrainSchema, Field, Sections, Kinds, Converted
<1>4. ASSUME NEW y \in DOMAIN WatchSchema PROVE Good(WatchSchema[y])
  BY <1>4 DEF WatchSchema, Field, Sections, Kinds, Converted
<1> HIDE DEF Good
<1>5. \A f \in Schemas : \A y \in DOMAIN f : Good(f[y])
  BY <1>1, <1>2, <1>3, <1>4 DEF Schemas
<1>6. Good(Schema[x])
  <2>1. PICK f \in Schemas : x \in DOMAIN f
    BY DEF Fields
  <2> DEFINE chosen == CHOOSE s \in Schemas : x \in DOMAIN s
  <2>2. chosen \in Schemas /\ x \in DOMAIN chosen
    BY <2>1
  <2>3. Schema[x] = chosen[x]
    BY DEF Schema
  <2> QED
    BY <1>5, <2>2, <2>3
<1> QED
  BY <1>6 DEF Good

(* Reading what was read changes nothing.                                  *)
LEMMA Idempotent ==
  ASSUME NEW kind \in Kinds, NEW form \in {"null", "false", "value", "word"},
         Converted(kind, form) # "raises"
  PROVE  /\ Converted(kind, Converted(kind, form)) = Converted(kind, form)
         /\ Converted(kind, form) # "absent"
BY DEF Converted, Kinds

(* Rounding up gives a multiple.                                           *)
LEMMA Rounded ==
  ASSUME NEW base \in Nat, NEW w \in Nat \ {0}
  PROVE  RoundedUp(base, w) \in Nat /\ RoundedUp(base, w) >= base /\ RoundedUp(base, w) % w = 0
<1> DEFINE k == (base + w - 1) \div w
<1>1. k \in Nat /\ base + w - 1 = w * k + ((base + w - 1) % w) /\ (base + w - 1) % w \in 0 .. w - 1
  BY SMT
<1>2. k * w = w * k /\ k * w \in Nat
  BY <1>1, SMT
<1>3. k * w >= base
  BY <1>1, <1>2
<1> HIDE DEF k
<1>4. (k * w) % w = 0
  <2> DEFINE n == k * w  q == n \div w  r == n % w  d == k - q
  <2>1. q \in Int /\ r \in 0 .. w - 1 /\ n = w * q + r
    <3> HIDE DEF n
    <3>1. n \in Nat
      BY <1>2 DEF n
    <3> QED
      BY <3>1, SMT
  <2>2. d \in Int /\ w * d = r
    <3>1. w * (k - q) = w * k - w * q
      BY <1>1, <2>1, SMT
    <3> QED
      BY <1>1, <1>2, <2>1, <3>1
  <2> HIDE DEF r, d
  <2>3. d >= 1 => w * d >= w
    BY <2>2, SMT
  <2>4. d <= -1 => w * d <= -w
    BY <2>2, SMT
  <2>5. d = 0
    BY <2>1, <2>2, <2>3, <2>4
  <2> QED
    BY <2>2, <2>5 DEF r
<1> QED
  BY <1>2, <1>3, <1>4 DEF RoundedUp, k

(* A driver's configuration comes back from its dictionary.                *)
LEMMA RoundTrip ==
  ASSUME LaunchAssumption, NEW f \in Files, ~Fails(f)
  PROVE  Parsed(AsDict(Overridden(Parsed(f)))) = Overridden(Parsed(f))
<1> DEFINE c == Overridden(Parsed(f))
           d == AsDict(c)
<1>1. c \in [Fields -> {c[x] : x \in Fields}]
  BY DEF Overridden, Parsed
<1>2. ASSUME NEW x \in Fields PROVE Read(d, x) = c[x]
  <2>1. Schema[x].section \in Sections
    BY SchemaHolds
  <2>2. ASSUME NEW s \in Sections PROVE SectionForm(d, s) = "map"
    <3>1. \A k \in 1 .. Len(PathOf(s)) : PathOf(s)[k] \in Sections
      BY DEF PathOf, Sections
    <3>2. Len(PathOf(s)) \in Nat
      BY DEF PathOf
    <3>3. \A k \in 1 .. Len(PathOf(s)) - 1 : d.sections[PathOf(s)[k]] = "map"
      BY <3>1, <3>2 DEF AsDict
    <3> QED
      BY <3>3 DEF SectionForm, AsDict
  <2>3. Form(d, x) = c[x]
    BY <2>1, <2>2 DEF Form, AsDict
  <2>4. c[x] # "absent" /\ Converted(Schema[x].kind, c[x]) = c[x]
    <3>1. CASE c[x] = Read(f, x)
      <4>1. Read(f, x) # "raises"
        BY DEF Fails
      <4>2. CASE Form(f, x) = "absent"
        BY <3>1, <4>2, SchemaHolds DEF Read
      <4>3. CASE Form(f, x) # "absent"
        <5>1. Form(f, x) \in {"null", "false", "value", "word"}
          BY <4>3 DEF Form, LaunchAssumption, ValueForms
        <5>2. Read(f, x) = Converted(Schema[x].kind, Form(f, x))
          BY <4>3 DEF Read
        <5> QED
          BY <3>1, <4>1, <5>1, <5>2, SchemaHolds, Idempotent
      <4> QED
        BY <4>2, <4>3
    <3>2. CASE c[x] \in {"false", "fromCommandLine"} /\ x \in {"dashboard", "port"} /\ c[x] # Read(f, x)
      <4>1. Schema["dashboard"].kind = "flag" /\ Schema["port"].kind = "number"
        <5>1. ASSUME NEW y \in {"dashboard", "port"}
              PROVE  Schema[y] = WatchSchema[y]
          <6>1. y \in DOMAIN WatchSchema
            BY DEF WatchSchema
          <6>2. y \notin DOMAIN ModelSchema /\ y \notin DOMAIN ServeSchema /\ y \notin DOMAIN TrainSchema
            BY DEF ModelSchema, ServeSchema, TrainSchema
          <6>3. (CHOOSE s \in Schemas : y \in DOMAIN s) = WatchSchema
            BY <6>1, <6>2 DEF Schemas
          <6> QED
            BY <6>1, <6>3 DEF Schema, Fields, Schemas
        <5> QED
          BY <5>1 DEF WatchSchema, Field
      <4>2. (x = "dashboard" /\ c[x] = "false") \/ (x = "port" /\ c[x] = "fromCommandLine")
        BY <3>2 DEF Overridden, Parsed
      <4> QED
        BY <4>1, <4>2 DEF Converted
    <3> QED
      BY <3>1, <3>2 DEF Overridden, Parsed
  <2> QED
    BY <2>3, <2>4 DEF Read
<1>3. Parsed(d) = [x \in Fields |-> c[x]]
  BY <1>2 DEF Parsed
<1> QED
  BY <1>1, <1>3

(* The driver runs what the file and the command line say; the blocks fall *)
(* evenly to the workers.                                                  *)
Driven == ~Fails(file) /\ config = Overridden(Parsed(file))
EvenBlocks == partitions % world = 0 /\ partitions >= 16 /\ partitions >= 4 * world

(* The inductive invariant of a launch.                                    *)
LaunchInv ==
  /\ file \in Files /\ arguments \in CommandLines /\ cluster \in Clusters
  /\ config = <<>> \/ Driven
  /\ phase \notin {"load", "badFile"} => Driven
  /\ received = <<>> \/ (Driven /\ received = config)
  /\ phase = "load" => received = <<>>
  /\ world \in Nat /\ partitions \in Nat
  /\ world = 0 \/ world = Workers
  /\ phase = "dataset" => world # 0
  /\ phase \in {"load", "ray", "dataset"} => partitions = 0
  /\ partitions # 0 => world # 0 /\ EvenBlocks

(* A launch starts so ...                                                  *)
LEMMA LaunchStarts ==
  ASSUME LaunchInit
  PROVE  LaunchInv
BY DEF LaunchInit, LaunchInv

(* ... and every step of it keeps it ...                                   *)
LEMMA LaunchKeeps ==
  ASSUME LaunchAssumption, LaunchInv, [LaunchNext]_launchVars
  PROVE  LaunchInv'
<1> USE DEF LaunchInv
<1>1. CASE LoadFile
  <2>1. Driven'
    BY <1>1 DEF LoadFile, Driven, Overridden
  <2>2. Workers' = Workers
    BY <1>1 DEF LoadFile, Workers, Gpus
  <2> QED
    BY <1>1, <2>1, <2>2 DEF LoadFile
<1>2. CASE BadFile
  <2>1. Driven' = Driven /\ Workers' = Workers
    BY <1>2 DEF BadFile, Driven, Overridden, Workers, Gpus
  <2> QED
    BY <1>2, <2>1 DEF BadFile
<1>3. CASE NoGpus
  <2>1. Driven' = Driven /\ Workers' = Workers
    BY <1>3 DEF NoGpus, Driven, Overridden, Workers, Gpus
  <2> QED
    BY <1>3, <2>1 DEF NoGpus
<1>4. CASE InitRay
  <2>1. Driven' = Driven /\ Workers' = Workers
    BY <1>4 DEF InitRay, Driven, Overridden, Workers, Gpus
  <2>2. Workers \in Nat \ {0}
    <3>1. arguments.workers \in Nat /\ cluster.nodes \in Nat /\ cluster.perNode \in Nat /\ cluster.local \in Nat
      BY DEF LaunchAssumption
    <3>2. Gpus \in Nat
      BY <3>1 DEF Gpus
    <3> QED
      BY <1>4, <3>1, <3>2 DEF InitRay, Workers, Counts
  <2> QED
    BY <1>4, <2>1, <2>2 DEF InitRay
<1>5. CASE LoadTokenized
  <2>1. Driven' = Driven /\ Workers' = Workers
    BY <1>5 DEF LoadTokenized, Driven, Overridden, Workers, Gpus
  <2>2. PICK readers \in {1, 5} : partitions' = NumPartitions(world, readers)
    BY <1>5 DEF LoadTokenized
  <2>3. world \in Nat \ {0}
    BY <1>5 DEF LoadTokenized
  <2> DEFINE base == Largest(Largest(world * 4, readers * 4), 16)
  <2>4. base \in Nat /\ base >= 16 /\ base >= 4 * world
    BY <2>3 DEF Largest
  <2> HIDE DEF base
  <2>5. partitions' = RoundedUp(base, world)
    BY <2>2 DEF NumPartitions, base
  <2>6. partitions' \in Nat /\ EvenBlocks'
    <3> DEFINE blocks == RoundedUp(base, world)
    <3>1. blocks \in Nat /\ blocks >= base /\ blocks % world = 0
      BY <2>3, <2>4, Rounded
    <3> HIDE DEF blocks
    <3>2. partitions' = blocks /\ world' = world
      BY <1>5, <2>5 DEF LoadTokenized, blocks
    <3>3. blocks >= 16 /\ blocks >= 4 * world
      BY <2>3, <2>4, <3>1
    <3> QED
      BY <3>1, <3>2, <3>3 DEF EvenBlocks
  <2> QED
    BY <1>5, <2>1, <2>3, <2>6 DEF LoadTokenized
<1>6. CASE StartWorkers
  <2>1. Driven' = Driven /\ Workers' = Workers
    BY <1>6 DEF StartWorkers, Driven, Overridden, Workers, Gpus
  <2>2. received' = config
    BY <1>6, RoundTrip DEF StartWorkers, Driven
  <2> QED
    BY <1>6, <2>1, <2>2 DEF StartWorkers, EvenBlocks
<1>7. CASE WorkerFails \/ FitReturns
  <2>1. Driven' = Driven /\ Workers' = Workers
    BY <1>7 DEF WorkerFails, FitReturns, Driven, Overridden, Workers, Gpus
  <2> QED
    BY <1>7, <2>1 DEF WorkerFails, FitReturns, EvenBlocks
<1>8. CASE UNCHANGED launchVars
  <2>1. Driven' = Driven /\ Workers' = Workers
    BY <1>8 DEF launchVars, Driven, Overridden, Workers, Gpus
  <2> QED
    BY <1>8, <2>1 DEF launchVars, EvenBlocks
<1> QED
  BY <1>1, <1>2, <1>3, <1>4, <1>5, <1>6, <1>7, <1>8 DEF LaunchNext

(* ... which is what the launcher owes.                                    *)
LEMMA LaunchInvSuffices ==
  ASSUME LaunchAssumption, LaunchInv
  PROVE  WorkersRunTheDriversConfig /\ SilenceMeansDefault /\ EveryWorkerGetsBlocks
<1> USE DEF LaunchInv
<1>1. ASSUME Driven
      PROVE  /\ arguments.noDashboard => config.dashboard = "false"
             /\ \A x \in Fields : config[x] = Read(file, x) \/ x \in {"dashboard", "port"}
  <2>1. "dashboard" \in Fields
    BY DEF Fields, Schemas, WatchSchema
  <2> QED
    BY <1>1, <2>1 DEF Driven, Overridden, Parsed
<1>2. WorkersRunTheDriversConfig
  BY <1>1 DEF WorkersRunTheDriversConfig
<1>3. SilenceMeansDefault
  <2>1. ASSUME NEW x \in Fields \ {"dashboard", "port"}, Driven, SectionForm(file, Schema[x].section) # "map"
        PROVE  config[x] = Schema[x].default
    BY <1>1, <2>1 DEF Read, Form
  <2> QED
    BY <2>1 DEF SilenceMeansDefault
<1>4. EveryWorkerGetsBlocks
  <2>1. cluster.nodes \in Nat /\ cluster.perNode \in Nat
    BY DEF LaunchAssumption
  <2> QED
    BY <2>1 DEF EveryWorkerGetsBlocks, EvenBlocks, Workers, Gpus
<1> QED
  BY <1>2, <1>3, <1>4

(***************************************************************************)
(* What is launched is what was configured: for any files, command lines   *)
(* and clusters, every worker, started again or not, runs the driver's     *)
(* configuration although it parses a dictionary the driver dumped; what a *)
(* file is silent about keeps its default; and the data set's blocks fall  *)
(* evenly to the workers, of which SLURM's job has one per GPU.            *)
(***************************************************************************)
THEOREM AlwaysLaunchedAsConfigured == MCSetupSpec => []LaunchedAsConfigured
<1> DEFINE Inv == part = "launch" => LaunchInv
<1>1. MCSetupInit => Inv
  BY LaunchStarts DEF MCSetupInit
<1>2. Inv /\ [MCSetupNext]_mcVars => Inv'
  <2> SUFFICES ASSUME Inv, [MCSetupNext]_mcVars, part' = "launch" PROVE LaunchInv'
    OBVIOUS
  <2>1. part = "launch" /\ [LaunchNext]_launchVars
    BY DEF MCSetupNext, mcVars, preparation
  <2> QED
    BY <2>1, LaunchKeeps, LaunchAssumption
<1>3. Inv => LaunchedAsConfigured
  BY LaunchInvSuffices, LaunchAssumption DEF LaunchedAsConfigured
<1> QED
  BY <1>1, <1>2, <1>3, PTL DEF MCSetupSpec

(***************************************************************************)
(* The rows of the data set                                                *)
(***************************************************************************)

(* A row keeps its shape while it is rendered.                             *)
LEMMA MessagesType ==
  ASSUME NEW row \in RawRows
  PROVE  Messages(row) \in RawTurns
<1>1. CASE row.kind = "turns"
  <2>1. row \in [kind : {"turns"}, missing : BOOLEAN, turns : RawTurns]
    BY <1>1 DEF RawRows
  <2> QED
    BY <2>1 DEF Messages, RawTurns
<1>2. CASE row.kind # "turns"
  BY <1>2 DEF Messages, RawTurns
<1> QED
  BY <1>1, <1>2

(* A speaker of ShareGPT has a name; those that ChatML names too are the   *)
(* same.                                                                   *)
LEMMA SenderType ==
  ASSUME NEW s \in Speakers
  PROVE  /\ Sender(s) \in Speakers
         /\ s \in DOMAIN Alias => Sender(Alias[s]) = s
<1>1. /\ DOMAIN RoleMap = {"human", "gpt", "system", "function"}
      /\ RoleMap["human"] = "user" /\ RoleMap["gpt"] = "assistant"
      /\ RoleMap["system"] = "system" /\ RoleMap["function"] = "tool"
  BY DEF RoleMap
<1>2. DOMAIN Alias = {"user", "assistant", "system", "tool"}
  BY DEF Alias
<1>3. Sender(s) \in Speakers
  <2>1. CASE s \in DOMAIN RoleMap
    BY <1>1, <2>1 DEF Sender, Speakers
  <2>2. CASE s \notin DOMAIN RoleMap
    BY <2>2 DEF Sender, Speakers
  <2> QED
    BY <2>1, <2>2
<1>4. ASSUME s \in DOMAIN Alias PROVE Sender(Alias[s]) = s
  <2>1. CASE s = "user"
    BY <1>1, <2>1 DEF Sender, Alias
  <2>2. CASE s = "assistant"
    BY <1>1, <2>2 DEF Sender, Alias
  <2>3. CASE s = "system"
    BY <1>1, <2>3 DEF Sender, Alias
  <2>4. CASE s = "tool"
    BY <1>1, <2>4 DEF Sender, Alias
  <2> QED
    BY <1>2, <1>4, <2>1, <2>2, <2>3, <2>4
<1> QED
  BY <1>3, <1>4

(* A text is a sequence of turns, whatever the format.                     *)
LEMMA RenderedType ==
  ASSUME tokenizer \in Tokenizers, NEW row \in RawRows, Fits(row)
  PROVE  RenderedAs(tokenizer.format, row) \in Rendered
<1> DEFINE q == Messages(row)
<1>1. tokenizer.format \in {"none", "chatml", "sharegpt", "alpaca"}
  BY DataAssumption
<1>2. /\ DOMAIN q = 1 .. Len(q) /\ Len(q) \in Nat
      /\ \A k \in 1 .. Len(q) : q[k].sender \in Speakers /\ q[k].content \in Contents
  <2>1. q \in Seq([bare : BOOLEAN, sender : Speakers, content : Contents])
    BY MessagesType DEF RawTurns
  <2> HIDE DEF q
  <2>2. DOMAIN q = 1 .. Len(q) /\ Len(q) \in Nat
    BY <2>1, LenProperties
  <2>3. \A k \in 1 .. Len(q) : q[k] \in [bare : BOOLEAN, sender : Speakers, content : Contents]
    BY <2>1, ElementOfSeq
  <2> QED
    BY <2>2, <2>3
<1>3. CASE tokenizer.format = "none"
  <2>1. row.kind = "text"
    BY <1>3 DEF Fits
  <2>2. row \in [kind : {"text"}, text : Rendered]
    BY <2>1 DEF RawRows
  <2> QED
    BY <1>3, <2>2 DEF RenderedAs
<1>4. CASE tokenizer.format = "chatml"
  <2>1. RenderChatml(row) \in [1 .. Len(q) -> Speakers \X Contents]
    <3>1. << >> \in Contents
      BY DEF Contents
    <3> HIDE DEF q
    <3>2. RenderChatml(row) = [k \in DOMAIN q |-> IF q[k].bare THEN <<"user", q[k].content>> ELSE <<q[k].sender, q[k].content>>]
      BY DEF RenderChatml, q
    <3>3. ASSUME NEW k \in 1 .. Len(q)
          PROVE  (IF q[k].bare THEN <<"user", q[k].content>> ELSE <<q[k].sender, q[k].content>>) \in Speakers \X Contents
      <4>1. q[k].sender \in Speakers /\ q[k].content \in Contents /\ "user" \in Speakers
        BY <1>2 DEF Speakers
      <4> QED
        BY <4>1
    <3> QED
      BY <1>2, <3>2, <3>3
  <2> QED
    BY <1>2, <1>4, <2>1, SeqDef DEF RenderedAs, Rendered
<1>5. CASE tokenizer.format = "sharegpt"
  <2>1. RenderShareGpt(row) \in [1 .. Len(q) -> Speakers \X Contents]
    <3>1. << >> \in Contents
      BY DEF Contents
    <3>2. \A s \in Speakers : Sender(s) \in Speakers
      BY SenderType
    <3> HIDE DEF q
    <3>3. RenderShareGpt(row) = [k \in DOMAIN q |-> IF q[k].bare THEN <<"user", << >>>> ELSE <<Sender(q[k].sender), q[k].content>>]
      BY DEF RenderShareGpt, q
    <3>4. ASSUME NEW k \in 1 .. Len(q)
          PROVE  (IF q[k].bare THEN <<"user", << >>>> ELSE <<Sender(q[k].sender), q[k].content>>) \in Speakers \X Contents
      <4>1. Sender(q[k].sender) \in Speakers /\ q[k].content \in Contents /\ "user" \in Speakers
        BY <1>2, <3>2 DEF Speakers
      <4> QED
        BY <3>1, <4>1
    <3> QED
      BY <1>2, <3>3, <3>4
  <2> QED
    BY <1>2, <1>5, <2>1, SeqDef DEF RenderedAs, Rendered
<1>6. CASE tokenizer.format = "alpaca"
  <2>1. Instruction(row) \in Contents /\ Output(row) \in Contents
    <3>1. CASE row.kind = "instruction"
      <4>1. row \in [kind : {"instruction"}, instruction : Contents, input : Contents, output : Contents]
        BY <3>1 DEF RawRows
      <4> QED
        BY <3>1, <4>1, ConcatProperties DEF Instruction, Output, Contents
    <3>2. CASE row.kind # "instruction"
      BY <3>2 DEF Instruction, Output, Contents
    <3> QED
      BY <3>1, <3>2
  <2>2. Instruction(row) \o Output(row) \in Contents
    BY <2>1, ConcatProperties DEF Contents
  <2>3. RenderAlpaca(row) \in Seq(Speakers \X Contents)
    <3>1. {"user", "assistant", "prose"} \subseteq Speakers
      BY DEF Speakers
    <3>2. /\ <<"user", Instruction(row)>> \in Speakers \X Contents
          /\ <<"assistant", Output(row)>> \in Speakers \X Contents
          /\ <<"prose", Instruction(row) \o Output(row)>> \in Speakers \X Contents
      BY <2>1, <2>2, <3>1
    <3> DEFINE Turn2 == Speakers \X Contents
    <3> HIDE DEF Turn2
    <3>3. \A a, b \in Turn2 : <<a, b>> \in Seq(Turn2) /\ <<a>> \in Seq(Turn2)
      OBVIOUS
    <3> QED
      BY <3>2, <3>3 DEF RenderAlpaca, Turn2
  <2> QED
    BY <1>6, <2>3 DEF RenderedAs, Rendered
<1> QED
  BY <1>1, <1>3, <1>4, <1>5, <1>6

(* Its tokens are tokens, and at most as many as a row holds.              *)
LEMMA TokensType ==
  ASSUME tokenizer \in Tokenizers, NEW text \in Rendered
  PROVE  Tokens(text) \in Contents /\ Len(Tokens(text)) <= tokenizer.seqLen
<1> DEFINE parts == [k \in DOMAIN text |-> TurnTokens(text[k])]
           all == (IF tokenizer.bos THEN <<Marker>> ELSE << >>) \o FlattenSeq(parts)
           m == IF Len(all) < tokenizer.seqLen THEN Len(all) ELSE tokenizer.seqLen
<1>1. tokenizer.seqLen \in Nat
  BY DataAssumption
<1>2. Tokens(text) = SubSeq(all, 1, m)
  BY DEF Tokens
<1>3. parts \in Seq(Contents)
  <2>1. DOMAIN text = 1 .. Len(text) /\ Len(text) \in Nat /\ \A k \in 1 .. Len(text) : text[k] \in Speakers \X Contents
    BY LenProperties, ElementOfSeq DEF Rendered
  <2>2. \A t \in Speakers \X Contents : TurnTokens(t) \in Contents
    BY ConcatProperties DEF TurnTokens, Contents, Marker
  <2>3. parts \in [1 .. Len(text) -> Contents]
    BY <2>1, <2>2
  <2> QED
    BY <2>1, <2>3, SeqDef
<1>4. FlattenSeq(parts) \in Contents
  <2>1. Contents \in SUBSET Seq(Nat) /\ << >> \in Contents /\ \A a, b \in Contents : a \o b \in Contents
    BY ConcatProperties DEF Contents
  <2> HIDE DEF parts
  <2> QED
    BY <1>3, <2>1, FlattenIn
<1>5. all \in Seq(Nat) /\ Len(all) \in Nat
  <2> HIDE DEF parts
  <2>1. (IF tokenizer.bos THEN <<Marker>> ELSE << >>) \in Seq(Nat)
    BY DEF Marker
  <2> QED
    BY <1>4, <2>1, ConcatProperties, LenProperties DEF Contents
<1> HIDE DEF parts, all
<1>6. m \in 0 .. Len(all) /\ m <= tokenizer.seqLen
  BY <1>1, <1>5
<1>7. SubSeq(all, 1, m) \in Seq(Nat) /\ Len(SubSeq(all, 1, m)) = m
  <2>1. \A i \in 1 .. m : all[i] \in Nat
    BY <1>5, <1>6, ElementOfSeq
  <2> HIDE DEF m
  <2> QED
    BY <1>5, <1>6, <2>1, SubSeqProperties
<1> QED
  BY <1>6, <1>7, <1>2 DEF Contents

(* A row's labels are its tokens where its mask is set; it is kept exactly *)
(* if there is such a place, and then learns something there.              *)
LEMMA RowTells ==
  ASSUME tokenizer \in Tokenizers, NEW text \in Rendered
  PROVE  /\ \A j \in 1 .. tokenizer.seqLen :
              RowOf(text).labels[j] = IF RowOf(text).mask[j] = 0 THEN Ignored ELSE RowOf(text).ids[j]
         /\ Kept(RowOf(text)) => \E j \in 1 .. tokenizer.seqLen : RowOf(text).labels[j] # Ignored
         /\ ~Kept(RowOf(text)) => Tokens(text) = << >>
<1> DEFINE s == Tokens(text)
           mask == [j \in 1 .. tokenizer.seqLen |-> IF j <= Len(s) THEN 1 ELSE 0]
           ids == Padded(s, actor.pad)
<1>1. tokenizer.seqLen \in Nat
  BY DataAssumption
<1>2. s \in Seq(Nat) /\ Len(s) \in Nat /\ Len(s) <= tokenizer.seqLen
  BY TokensType, LenProperties DEF Contents
<1> HIDE DEF s
<1>3. RowOf(text).ids = ids /\ RowOf(text).mask = mask /\ RowOf(text).labels = Labels(ids, mask)
  BY DEF RowOf, s
<1>4. \A j \in 1 .. tokenizer.seqLen : ids[j] = IF j <= Len(s) THEN s[j] ELSE actor.pad
  BY DEF Padded
<1>5. \A j \in 1 .. tokenizer.seqLen : Labels(ids, mask)[j] = IF mask[j] = 0 THEN Ignored ELSE ids[j]
  <2>1. DOMAIN ids = 1 .. tokenizer.seqLen
    BY DEF Padded
  <2> HIDE DEF ids, mask
  <2> QED
    BY <2>1 DEF Labels
<1>6. DOMAIN mask = 1 .. tokenizer.seqLen /\ \A j \in 1 .. tokenizer.seqLen : mask[j] = IF j <= Len(s) THEN 1 ELSE 0
  OBVIOUS
<1> HIDE DEF ids, mask
<1>7. ASSUME Kept(RowOf(text)) PROVE \E j \in 1 .. tokenizer.seqLen : RowOf(text).labels[j] # Ignored
  <2>1. PICK j \in 1 .. tokenizer.seqLen : mask[j] = 1
    BY <1>3, <1>6, <1>7 DEF Kept
  <2>2. j \in 1 .. Len(s)
    BY <1>1, <1>2, <1>6, <2>1
  <2>3. ids[j] \in Nat
    BY <1>2, <1>4, <2>1, <2>2, ElementOfSeq
  <2>4. Labels(ids, mask)[j] \in Nat
    BY <1>5, <2>1, <2>3
  <2> QED
    BY <1>3, <2>1, <2>4 DEF Ignored
<1>8. ASSUME ~Kept(RowOf(text)) PROVE s = << >>
  <2>1. Len(s) = 0
    <3>1. SUFFICES ASSUME 1 <= Len(s) PROVE FALSE
      BY <1>2
    <3>2. 1 \in 1 .. tokenizer.seqLen /\ mask[1] = 1
      BY <1>1, <1>2, <1>6, <3>1
    <3> QED
      BY <1>3, <1>6, <1>8, <3>2 DEF Kept
  <2> QED
    BY <1>2, <2>1, EmptySeq
<1> QED
  BY <1>3, <1>5, <1>7, <1>8 DEF s

(* What filtering leaves are rows with a token, and it leaves nothing only *)
(* of a batch without one.                                                 *)
LEMMA FilterKeeps ==
  ASSUME NEW S, NEW q \in Seq(S)
  PROVE  /\ Filtered(q) \in Seq({x \in S : Kept(x)})
         /\ Filtered(q) = << >> => \A k \in 1 .. Len(q) : ~Kept(q[k])
<1> DEFINE n == Len(q)
           K == {x \in S : Kept(x)}
           Add(kept, row) == IF Kept(row) THEN Append(kept, row) ELSE kept
           step == [x \in (1 .. n) \X Seq(K) |-> Add(x[2], q[x[1]])]
           Next(g) == [T \in SUBSET DOMAIN q |-> IF T = {} THEN << >> ELSE
             IF Kept(q[Max(T)]) THEN Append(g[T \ {Max(T)}], q[Max(T)]) ELSE g[T \ {Max(T)}]]
           table == CHOOSE g : g = Next(g)
<1>1. n \in Nat /\ DOMAIN q = 1 .. n /\ \A k \in 1 .. n : q[k] \in S
  BY LenProperties, ElementOfSeq
<1>2. Filtered(q) = table[1 .. n]
  BY <1>1 DEF Filtered, FoldLeft, MapThenFoldSet
<1> HIDE DEF n, K
<1>3. << >> \in Seq(K) /\ \A k \in 1 .. n : \A d \in Seq(K) : Add(d, q[k]) \in Seq(K)
  <2>1. \A k \in 1 .. n : Kept(q[k]) => q[k] \in K
    BY <1>1 DEF K
  <2> QED
    BY <2>1, AppendProperties
<1> HIDE DEF K
<1>4. Advances(step, 1 .. n, Seq(K))
  BY <1>3 DEF Advances
<1>5. PICK h : FoldTabulates(h, n, Seq(K), << >>, step)
  BY <1>1, <1>3, <1>4, FoldTable
<1>6. h = Next(h)
  <2>1. ASSUME NEW T \in SUBSET (1 .. n), T # {} PROVE h[T] = Add(h[T \ {Max(T)}], q[Max(T)])
    <3>1. Max(T) \in 1 .. n /\ h[T \ {Max(T)}] \in Seq(K) /\ h[T] = step[<<Max(T), h[T \ {Max(T)}]>>]
      BY <1>5, <2>1 DEF FoldTabulates
    <3> QED
      BY <3>1
  <2> QED
    BY <1>1, <1>5, <2>1 DEF FoldTabulates
<1>7. table = Next(table)
  BY <1>6
<1> HIDE DEF table
<1>8. table[{}] = << >>
  BY <1>7
<1>9. ASSUME NEW k \in 1 .. n PROVE table[1 .. k] = Add(table[1 .. k - 1], q[k])
  <2>1. k \in Nat \ {0} /\ 1 .. k # {} /\ 1 .. k \in SUBSET DOMAIN q
    <3>1. k \in Nat \ {0} /\ k \in 1 .. k /\ 1 .. k \subseteq 1 .. n
      BY <1>1
    <3> QED
      BY <1>1, <3>1
  <2>2. Max(1 .. k) = k /\ (1 .. k) \ {k} = 1 .. k - 1
    BY <2>1, MaxOfFirst
  <2> QED
    BY <1>7, <2>1, <2>2
<1>10. \A k \in 0 .. n : table[1 .. k] \in Seq(K) /\ (table[1 .. k] = << >> => \A i \in 1 .. k : ~Kept(q[i]))
  <2> DEFINE G == {k \in 0 .. n : table[1 .. k] \in Seq(K) /\ (table[1 .. k] = << >> => \A i \in 1 .. k : ~Kept(q[i]))}
  <2>1. 0 \in G
    <3>1. 1 .. 0 = {} /\ 0 \in 0 .. n
      BY <1>1
    <3>2. table[1 .. 0] \in Seq(K) /\ \A i \in 1 .. 0 : ~Kept(q[i])
      BY <1>3, <1>8, <3>1
    <3> QED
      BY <3>1, <3>2
  <2>2. ASSUME NEW k \in 1 .. n, k - 1 \in G PROVE k \in G
    <3>1. k \in 0 .. n /\ 1 .. k = (1 .. k - 1) \cup {k}
      BY <1>1
    <3>2. table[1 .. k - 1] \in Seq(K) /\ (table[1 .. k - 1] = << >> => \A i \in 1 .. k - 1 : ~Kept(q[i]))
      BY <2>2
    <3>3. table[1 .. k] \in Seq(K)
      BY <1>3, <1>9, <3>2
    <3>4. CASE Kept(q[k])
      <4>1. table[1 .. k] = Append(table[1 .. k - 1], q[k]) /\ q[k] \in S
        BY <1>1, <1>9, <3>4
      <4>2. table[1 .. k] # << >>
        <5>1. q[k] \in K
          BY <3>4, <4>1 DEF K
        <5> QED
          BY <3>2, <4>1, <5>1, AppendProperties
      <4> QED
        BY <3>1, <3>3, <4>2
    <3>5. CASE ~Kept(q[k])
      BY <1>9, <3>1, <3>2, <3>3, <3>5
    <3> QED
      BY <3>4, <3>5
  <2> HIDE DEF G
  <2>3. \A k \in 0 .. n : k \in G
    BY <1>1, <2>1, <2>2, Upwards
  <2> QED
    BY <2>3 DEF G
<1>11. table[1 .. n] \in Seq(K) /\ (table[1 .. n] = << >> => \A i \in 1 .. n : ~Kept(q[i]))
  <2>1. n \in 0 .. n
    BY <1>1
  <2> QED
    BY <1>10, <2>1
<1> QED
  BY <1>2, <1>11 DEF n, K

(* The texts are those of the batch.                                       *)
TextsHold ==
  texts # << >> =>
    /\ actor.loaded /\ batch # << >>
    /\ texts \in Seq(Rendered) /\ DOMAIN texts = DOMAIN batch
    /\ \A k \in DOMAIN batch : texts[k] = RenderedAs(tokenizer.format, batch[k])

(* The batch has no token.                                                 *)
NoTokens == \A t \in DOMAIN texts : Tokens(texts[t]) = << >>

(* The labels of a row are its tokens where its mask is set, and a row     *)
(* without labels stands for a batch without a token.                      *)
RowsHold ==
  rows # << >> =>
    /\ texts # << >>
    /\ \A k \in DOMAIN rows : \A j \in 1 .. tokenizer.seqLen :
         rows[k].labels[j] = IF rows[k].mask[j] = 0 THEN Ignored ELSE rows[k].ids[j]
    /\ \/ rows = <<Dummy>> /\ NoTokens
       \/ \A k \in DOMAIN rows : \E j \in 1 .. tokenizer.seqLen : rows[k].labels[j] # Ignored

(* The inductive invariant of the rows, with what is read.                 *)
RowsInv ==
  /\ tokenizer \in Tokenizers
  /\ origin \in {"none", "raises"} \/ origin = Origin
  /\ batch # << >> => batch \in Batches
  /\ TextsHold
  /\ RowsHold

(* It holds before anything is read.                                       *)
LEMMA RowsStart == DataInit => RowsInv
BY DEF DataInit, RowsInv, TextsHold, RowsHold

(* What is read depends on the configuration alone, what stands for an     *)
(* empty batch on the tokenizer alone.                                     *)
LEMMA OriginStays ==
  ASSUME source' = source
  PROVE  Origin' = Origin
BY DEF Origin, Cached, PathForSplit

LEMMA DummyStays ==
  ASSUME tokenizer' = tokenizer
  PROVE  Dummy' = Dummy
BY DEF Dummy, Zeros

(* Steps that leave the texts and the tokenizer alone leave what was said  *)
(* of them, and of their rows.                                             *)
LEMMA NoTokensStays ==
  ASSUME tokenizer' = tokenizer, texts' = texts
  PROVE  NoTokens' <=> NoTokens
BY DEF NoTokens, Tokens

LEMMA TextsStay ==
  ASSUME TextsHold, tokenizer' = tokenizer, batch' = batch, texts' = texts, actor.loaded => actor'.loaded
  PROVE  TextsHold'
BY DEF TextsHold, RenderedAs, RenderAlpaca

LEMMA RowsStay ==
  ASSUME RowsHold, tokenizer' = tokenizer, texts' = texts, rows' = rows
  PROVE  RowsHold'
BY DummyStays, NoTokensStays DEF RowsHold

(* What the tokenizer makes of the texts.                                  *)
LEMMA RowsOfTexts ==
  ASSUME tokenizer \in Tokenizers, texts \in Seq(Rendered),
         NEW kept, kept = Filtered([k \in DOMAIN texts |-> RowOf(texts[k])])
  PROVE  /\ kept = << >> => \A t \in DOMAIN texts : Tokens(texts[t]) = << >>
         /\ \A k \in DOMAIN kept : Kept(kept[k]) /\ \E t \in DOMAIN texts : texts[t] \in Rendered /\ kept[k] = RowOf(texts[t])
<1> DEFINE n == Len(texts)
           S == {RowOf(texts[t]) : t \in 1 .. n}
           all == [k \in DOMAIN texts |-> RowOf(texts[k])]
<1>1. n \in Nat /\ DOMAIN texts = 1 .. n /\ \A t \in 1 .. n : texts[t] \in Rendered
  BY LenProperties, ElementOfSeq
<1>2. all \in [1 .. n -> S] /\ \A t \in 1 .. n : all[t] = RowOf(texts[t])
  BY <1>1
<1>3. \A x \in S : \E t \in DOMAIN texts : texts[t] \in Rendered /\ x = RowOf(texts[t])
  BY <1>1
<1>4. kept = Filtered(all)
  OBVIOUS
<1> HIDE DEF n, S, all
<1>5. all \in Seq(S) /\ Len(all) = n
  BY <1>1, <1>2, SeqDef, LenProperties
<1>6. kept \in Seq({x \in S : Kept(x)}) /\ (kept = << >> => \A t \in 1 .. n : ~Kept(all[t]))
  BY <1>4, <1>5, FilterKeeps
<1>7. \A k \in DOMAIN kept : kept[k] \in S /\ Kept(kept[k])
  BY <1>6, LenProperties, ElementOfSeq
<1>8. \A t \in 1 .. n : ~Kept(RowOf(texts[t])) => Tokens(texts[t]) = << >>
  BY <1>1, RowTells
<1> QED
  BY <1>1, <1>2, <1>3, <1>6, <1>7, <1>8

(* Every step of the data set keeps it.                                    *)
LEMMA RowsKeep ==
  ASSUME RowsInv, [DataNext]_dataVars
  PROVE  RowsInv'
<1> USE DEF RowsInv
<1>1. CASE BuildDataset
  BY <1>1, OriginStays, TextsStay, RowsStay DEF BuildDataset
<1>2. CASE TakeBatch
  BY <1>2, OriginStays DEF TakeBatch, TextsHold, RowsHold
<1>3. CASE LoadTokenizer
  BY <1>3, OriginStays, TextsStay, RowsStay DEF LoadTokenizer
<1>4. CASE Render
  <2>1. batch \in Batches /\ texts = << >> /\ rows = << >> /\ rows' = << >>
        /\ UNCHANGED <<source, tokenizer, origin, actor, batch>> /\ actor.loaded
        /\ texts' = [k \in DOMAIN batch |-> RenderedAs(tokenizer.format, batch[k])]
    BY <1>4 DEF Render, RowsHold
  <2>2. DOMAIN batch = 1 .. Len(batch) /\ Len(batch) \in Nat /\ \A k \in 1 .. Len(batch) : batch[k] \in RawRows
    <3>1. batch \in Seq(RawRows)
      BY <2>1, DataAssumption
    <3> QED
      BY <3>1, LenProperties, ElementOfSeq
  <2>3. \A k \in 1 .. Len(batch) : RenderedAs(tokenizer.format, batch[k]) \in Rendered
    BY <1>4, <2>2, RenderedType DEF Render
  <2>4. texts' \in [1 .. Len(batch) -> Rendered]
    BY <2>1, <2>2, <2>3
  <2>5. texts' \in Seq(Rendered)
    BY <2>2, <2>4, SeqDef
  <2>6. TextsHold'
    <3>1. DOMAIN texts' = DOMAIN batch /\ \A k \in DOMAIN batch : texts'[k] = RenderedAs(tokenizer.format, batch[k])
      BY <2>1
    <3> HIDE DEF RowsInv
    <3> QED
      BY <1>4, <2>1, <2>5, <3>1 DEF TextsHold, RenderedAs, RenderAlpaca, Render
  <2>7. RowsHold'
    BY <2>1 DEF RowsHold
  <2> QED
    BY <2>1, <2>6, <2>7, OriginStays
<1>5. CASE WrongColumns
  BY <1>5 DEF WrongColumns, TextsHold, RowsHold
<1>6. CASE Tokenize
  <2> DEFINE kept == Filtered([k \in DOMAIN texts |-> RowOf(texts[k])])
  <2> SUFFICES RowsHold'
    BY <1>6, OriginStays, TextsStay DEF Tokenize
  <2>1. texts # << >> /\ texts \in Seq(Rendered) /\ UNCHANGED <<source, tokenizer, origin, actor, batch, texts>>
        /\ rows' = IF kept = << >> THEN <<Dummy>> ELSE kept
    BY <1>6 DEF Tokenize, TextsHold
  <2>2. /\ kept = << >> => \A t \in DOMAIN texts : Tokens(texts[t]) = << >>
        /\ \A k \in DOMAIN kept : Kept(kept[k]) /\ \E t \in DOMAIN texts : texts[t] \in Rendered /\ kept[k] = RowOf(texts[t])
    BY <2>1, RowsOfTexts
  <2> HIDE DEF kept
  <2>3. CASE kept = << >>
    <3>1. rows' = <<Dummy'>> /\ DOMAIN rows' = {1} /\ rows'[1] = Dummy
      BY <2>1, <2>3, DummyStays
    <3>2. \A j \in 1 .. tokenizer.seqLen : Dummy.labels[j] = Ignored /\ Dummy.mask[j] = 0
      BY DEF Dummy, Zeros
    <3>3. \A t \in DOMAIN texts : Tokens(texts[t]) = << >>
      BY <2>2, <2>3
    <3>4. \A k \in DOMAIN rows' : \A j \in 1 .. tokenizer'.seqLen :
             rows'[k].labels[j] = IF rows'[k].mask[j] = 0 THEN Ignored ELSE rows'[k].ids[j]
      BY <2>1, <3>1, <3>2
    <3>5. tokenizer' = tokenizer /\ texts' = texts /\ texts # << >>
      BY <2>1
    <3>6. NoTokens'
      BY <3>3, <3>5, NoTokensStays DEF NoTokens
    <3> QED
      BY <3>1, <3>4, <3>5, <3>6 DEF RowsHold
  <2>4. CASE kept # << >>
    <3>1. rows' = kept
      BY <2>1, <2>4
    <3>2. ASSUME NEW k \in DOMAIN kept
          PROVE  /\ \A j \in 1 .. tokenizer.seqLen : kept[k].labels[j] = IF kept[k].mask[j] = 0 THEN Ignored ELSE kept[k].ids[j]
                 /\ \E j \in 1 .. tokenizer.seqLen : kept[k].labels[j] # Ignored
      <4>1. PICK t \in DOMAIN texts : texts[t] \in Rendered /\ kept[k] = RowOf(texts[t])
        BY <2>2
      <4>2. Kept(RowOf(texts[t]))
        BY <2>2, <4>1
      <4> QED
        BY <4>1, <4>2, RowTells
    <3>3. tokenizer' = tokenizer /\ texts' # << >>
      BY <2>1
    <3>4. \A k \in DOMAIN rows' : \A j \in 1 .. tokenizer'.seqLen :
             rows'[k].labels[j] = IF rows'[k].mask[j] = 0 THEN Ignored ELSE rows'[k].ids[j]
      BY <3>1, <3>2, <3>3
    <3>5. \A k \in DOMAIN rows' : \E j \in 1 .. tokenizer'.seqLen : rows'[k].labels[j] # Ignored
      BY <3>1, <3>2, <3>3
    <3> QED
      BY <3>3, <3>4, <3>5 DEF RowsHold
  <2> QED
    BY <2>3, <2>4
<1>7. CASE NextBatch
  BY <1>7, OriginStays DEF NextBatch, TextsHold, RowsHold
<1>8. CASE UNCHANGED dataVars
  BY <1>8, OriginStays, TextsStay, RowsStay DEF dataVars
<1> QED
  BY <1>1, <1>2, <1>3, <1>4, <1>5, <1>6, <1>7, <1>8 DEF DataNext

(* The invariant gives what is claimed of the rows.                        *)
LEMMA RowsInvSuffices ==
  ASSUME RowsInv
  PROVE  SplitsStayApart /\ LabelsFollowText /\ SameTurns
<1>1. SplitsStayApart
  BY DEF RowsInv, SplitsStayApart, Origin, Cached, PathForSplit
<1>2. LabelsFollowText
  <2>1. SUFFICES ASSUME rows # << >> PROVE LabelsFollowText
    BY DEF LabelsFollowText
  <2>2. CASE rows = <<Dummy>> /\ NoTokens
    BY <2>1, <2>2 DEF RowsInv, NoTokens, RowsHold, LabelsFollowText
  <2>3. CASE \A k \in DOMAIN rows : \E j \in 1 .. tokenizer.seqLen : rows[k].labels[j] # Ignored
    BY <2>1, <2>3 DEF RowsInv, RowsHold, LabelsFollowText
  <2> QED
    BY <2>1, <2>2, <2>3 DEF RowsInv, RowsHold
<1>3. SameTurns
  <2> SUFFICES ASSUME texts # << >>, tokenizer.format = "chatml", NEW k \in DOMAIN batch,
                      \A j \in DOMAIN Messages(batch[k]) :
                        ~batch[k].turns[j].bare /\ batch[k].turns[j].sender \in DOMAIN Alias
               PROVE  RenderShareGpt(Renamed(batch[k])) = texts[k]
    BY DEF SameTurns
  <2> DEFINE row == batch[k]
             q == row.turns
             r == [j \in DOMAIN q |-> Aliased(q[j])]
  <2>1. texts[k] = RenderChatml(row)
    BY DEF RowsInv, TextsHold, RenderedAs
  <2>2. row \in RawRows
    <3>1. batch \in Seq(RawRows)
      BY DataAssumption DEF RowsInv, TextsHold
    <3> QED
      BY <3>1, LenProperties, ElementOfSeq
  <2>3. CASE row.kind = "turns" /\ ~row.missing
    <3>1. row \in [kind : {"turns"}, missing : BOOLEAN, turns : RawTurns]
      BY <2>2, <2>3 DEF RawRows
    <3>2. Renamed(row) = [row EXCEPT !.turns = r]
      BY <2>3 DEF Renamed
    <3>3. Messages(row) = q /\ Messages(Renamed(row)) = r
      BY <2>3, <3>1, <3>2 DEF Messages
    <3>4. \A j \in DOMAIN q : /\ q[j] \in [bare : BOOLEAN, sender : Speakers, content : Contents]
                              /\ ~q[j].bare /\ q[j].sender \in DOMAIN Alias
      <4>1. q \in RawTurns
        BY <3>1
      <4>2. \A j \in DOMAIN q : q[j] \in [bare : BOOLEAN, sender : Speakers, content : Contents]
        <5> HIDE DEF q
        <5> QED
          BY <4>1, LenProperties, ElementOfSeq DEF RawTurns
      <4> QED
        BY <3>3, <4>2
    <3>5. \A j \in DOMAIN q : ~r[j].bare /\ r[j].sender = Alias[q[j].sender] /\ r[j].content = q[j].content
      <4> HIDE DEF q
      <4> QED
        BY <3>4 DEF Aliased
    <3>6. \A j \in DOMAIN q : Sender(Alias[q[j].sender]) = q[j].sender
      <4> HIDE DEF q
      <4> QED
        BY <3>4, SenderType
    <3>7. DOMAIN r = DOMAIN q
      OBVIOUS
    <3> HIDE DEF row, q, r
    <3>8. RenderChatml(row) = [j \in DOMAIN q |-> <<q[j].sender, q[j].content>>]
      <4>1. RenderChatml(row) = [j \in DOMAIN q |-> IF q[j].bare THEN <<"user", q[j].content>> ELSE <<q[j].sender, q[j].content>>]
        BY <3>3 DEF RenderChatml
      <4> QED
        BY <3>4, <4>1
    <3>9. RenderShareGpt(Renamed(row)) = [j \in DOMAIN q |-> <<q[j].sender, q[j].content>>]
      <4>1. RenderShareGpt(Renamed(row)) =
              [j \in DOMAIN r |-> IF r[j].bare THEN <<"user", << >>>> ELSE <<Sender(r[j].sender), r[j].content>>]
        BY <3>3 DEF RenderShareGpt
      <4> QED
        BY <3>5, <3>6, <3>7, <4>1
    <3> QED
      BY <2>1, <3>8, <3>9 DEF row
  <2>4. CASE row.kind = "turns" /\ row.missing
    <3>1. row \in [kind : {"turns"}, missing : BOOLEAN, turns : RawTurns]
      BY <2>2, <2>4 DEF RawRows
    <3>2. Renamed(row) = [row EXCEPT !.turns = r]
      BY <2>4 DEF Renamed
    <3>3. Messages(row) = << >> /\ Messages(Renamed(row)) = << >>
      BY <2>4, <3>1, <3>2 DEF Messages
    <3> HIDE DEF row, r
    <3> QED
      BY <2>1, <3>3 DEF RenderChatml, RenderShareGpt, row
  <2>5. CASE row.kind # "turns"
    <3>1. Renamed(row) = row /\ Messages(row) = << >>
      BY <2>5 DEF Renamed, Messages
    <3> HIDE DEF row
    <3> QED
      BY <2>1, <3>1 DEF RenderChatml, RenderShareGpt, row
  <2> QED
    BY <2>3, <2>4, <2>5
<1> QED
  BY <1>1, <1>2, <1>3

(* The rows a model trains on hold the text of their conversation and      *)
(* nothing else, in every state: what is read for validation is not what   *)
(* is trained on, the labels are the tokens of the text and padding is     *)
(* never learnt, and a conversation reads the same in either format.       *)
THEOREM RowsAreAlwaysTheText == MCSetupSpec => []RowsAreTheText
<1> DEFINE Inv == part = "rows" => RowsInv
<1>1. MCSetupInit => Inv
  BY RowsStart DEF MCSetupInit
<1>2. Inv /\ [MCSetupNext]_mcVars => Inv'
  <2> SUFFICES ASSUME Inv, [MCSetupNext]_mcVars, part' = "rows" PROVE RowsInv'
    OBVIOUS
  <2>1. part = "rows" /\ [DataNext]_dataVars
    BY DEF MCSetupNext, mcVars, preparation
  <2> QED
    BY <2>1, RowsKeep
<1>3. Inv => RowsAreTheText
  BY RowsInvSuffices DEF RowsAreTheText
<1> QED
  BY <1>1, <1>2, <1>3, PTL DEF MCSetupSpec

(***************************************************************************)
(* Plans of serving                                                        *)
(***************************************************************************)

(* Products and quotients of natural numbers.                              *)
LEMMA ProductGrows ==
  ASSUME NEW a \in Nat, NEW b \in Nat, NEW q \in Nat, a <= b
  PROVE  q * a <= q * b
<1>1. b - a \in Nat /\ q * b = q * a + q * (b - a)
  OBVIOUS
<1>2. q * (b - a) \in Nat /\ q * a \in Nat
  BY <1>1
<1> QED
  BY <1>1, <1>2

(* The quotient is the greatest number that fits.                          *)
LEMMA QuotientIs ==
  ASSUME NEW x \in Nat, NEW b \in Nat \ {0}
  PROVE  (x \div b) \in Nat /\ (x \div b) * b <= x /\ x < (x \div b) * b + b
OBVIOUS

(* Whatever fits is at most the quotient.                                  *)
LEMMA QuotientAtLeast ==
  ASSUME NEW x \in Nat, NEW b \in Nat \ {0}, NEW q \in Nat, q * b <= x
  PROVE  q <= (x \div b)
<1> DEFINE d == x \div b
<1>1. d \in Nat /\ x < d * b + b
  BY QuotientIs
<1> HIDE DEF d
<1> SUFFICES ASSUME d + 1 <= q PROVE FALSE
  BY <1>1
<1>2. (d + 1) * b = d * b + b
  BY <1>1
<1>3. b * (d + 1) <= b * q
  BY <1>1, ProductGrows
<1>4. (d + 1) * b = b * (d + 1) /\ q * b = b * q
  BY <1>1
<1>5. d * b \in Nat /\ q * b \in Nat
  BY <1>1
<1> QED
  BY <1>1, <1>2, <1>3, <1>4, <1>5

(* A greater divisor gives no greater quotient.                            *)
LEMMA QuotientFalls ==
  ASSUME NEW x \in Nat, NEW a \in Nat \ {0}, NEW b \in Nat \ {0}, a <= b
  PROVE  (x \div b) <= (x \div a)
<1>1. (x \div b) \in Nat /\ (x \div b) * b <= x
  BY QuotientIs
<1>2. (x \div b) * a <= (x \div b) * b
  BY <1>1, ProductGrows
<1>3. (x \div b) * a \in Nat /\ (x \div b) * b \in Nat
  BY <1>1
<1>4. (x \div b) * a <= x
  BY <1>1, <1>2, <1>3
<1> QED
  BY <1>1, <1>4, QuotientAtLeast

(* Rounded to the nearest too: more time, no more throughput.              *)
LEMMA RateFalls ==
  ASSUME NEW a \in Nat, NEW m \in Nat \ {0}, NEW n \in Nat \ {0}, m <= n
  PROVE  ((a + n) \div (2 * n)) <= ((a + m) \div (2 * m))
<1> DEFINE q == (a + n) \div (2 * n)
<1>1. q \in Nat /\ q * (2 * n) <= a + n
  <2>1. a + n \in Nat /\ 2 * n \in Nat \ {0}
    OBVIOUS
  <2> QED
    BY <2>1, QuotientIs
<1>2. (a + m) \div (2 * m) \in Nat
  <2>1. a + m \in Nat /\ 2 * m \in Nat \ {0}
    OBVIOUS
  <2> QED
    BY <2>1, QuotientIs
<1> HIDE DEF q
<1>3. CASE q = 0
  BY <1>2, <1>3 DEF q
<1>4. CASE q # 0
  <2> DEFINE r == 2 * q - 1
  <2>1. r \in Nat /\ 2 * q = r + 1
    BY <1>1, <1>4
  <2>2. q * (2 * n) = (2 * q) * n /\ q * (2 * m) = (2 * q) * m
    BY <1>1
  <2> HIDE DEF r
  <2>3. (r + 1) * n = r * n + n /\ (r + 1) * m = r * m + m
    BY <2>1
  <2>4. r * m <= r * n
    BY <2>1, ProductGrows
  <2>5. r * m \in Nat /\ r * n \in Nat
    BY <2>1
  <2>6. q * (2 * m) <= a + m
    BY <1>1, <2>1, <2>2, <2>3, <2>4, <2>5
  <2>7. a + m \in Nat /\ 2 * m \in Nat \ {0}
    OBVIOUS
  <2> QED
    BY <1>1, <2>6, <2>7, QuotientAtLeast DEF q
<1> QED
  BY <1>3, <1>4

(* What the planner is told: of the model, of the machine, of the work.    *)
ModelTold(m) ==
  /\ m.weights.resident \in Nat /\ m.weights.routed \in Nat
  /\ m.hidden \in Nat /\ m.layers \in Nat /\ m.routed \in Nat /\ m.topK \in Nat
MachineTold(hw) ==
  hw.gpus \in Seq(Nat) /\ hw.cuda \in BOOLEAN /\ hw.pcie \in Nat /\ hw.dram \in Nat /\ hw.ram \in Nat
WorkTold(work) == work.batch \in Nat /\ work.prompt \in Nat /\ work.gen \in Nat /\ work.shared \in BOOLEAN

(* Sizes and times are numbers.                                            *)
LEMMA SizeTypes ==
  ASSUME NEW m, ModelTold(m), NEW work, WorkTold(work)
  PROVE  /\ ExpertMb(m) \in Nat /\ Demand(m, work) \in Nat
         /\ \A tokens \in Nat : KvMb(m, tokens) \in Nat
<1>1. PICK layers, routed, hidden, topK, all, size \in Nat :
        /\ layers = m.layers /\ routed = m.routed /\ hidden = m.hidden /\ topK = m.topK
        /\ all = m.weights.routed /\ size = work.batch
  BY DEF ModelTold, WorkTold
<1>2. \A x, d \in Nat : Default(x, d) \in Nat
  BY DEF Default
<1>3. ExpertMb(m) \in Nat
  <2>1. layers * routed \in Nat
    OBVIOUS
  <2> QED
    BY <1>1, <2>1, QuotientIs DEF ExpertMb
<1>4. UnionPerLayer(m, work.batch, work.shared) \in Nat
  <2> DEFINE k == Default(topK, 6)
             n == Default(routed, 160)
  <2>1. k \in Nat /\ n \in Nat
    BY <1>2
  <2>2. UnionPerLayer(m, work.batch, work.shared) =
          IF work.shared THEN k ELSE IF size * k < n THEN size * k ELSE n
    BY <1>1 DEF UnionPerLayer
  <2> HIDE DEF k, n
  <2>3. size * k \in Nat
    BY <2>1
  <2> QED
    BY <2>1, <2>2, <2>3
<1>5. Demand(m, work) \in Nat
  <2> DEFINE u == UnionPerLayer(m, work.batch, work.shared)
             l == Default(m.layers, 60)
             e == ExpertMb(m)
  <2>1. u \in Nat /\ l \in Nat /\ e \in Nat
    BY <1>1, <1>2, <1>3, <1>4
  <2>2. Demand(m, work) = u * l * e
    BY DEF Demand
  <2> HIDE DEF u, l, e
  <2> QED
    BY <2>1, <2>2
<1>6. ASSUME NEW tokens \in Nat PROVE KvMb(m, tokens) \in Nat
  <2> DEFINE h == Default(m.hidden, 5120)
             l == Default(m.layers, 60)
  <2>1. h \in Nat /\ l \in Nat
    <3>1. m.hidden \in Nat /\ m.layers \in Nat
      BY DEF ModelTold
    <3> QED
      BY <3>1 DEF Default
  <2>2. KvMb(m, tokens) = (4 * h * l * tokens) \div 1048576
    BY DEF KvMb
  <2> HIDE DEF h, l
  <2>3. 4 * h * l * tokens \in Nat
    BY <2>1
  <2> QED
    BY <2>2, <2>3, QuotientIs
<1> QED
  BY <1>3, <1>5, <1>6

(* So is what a way of serving takes of the device.                        *)
LEMMA VramTypes ==
  ASSUME NEW m, ModelTold(m), NEW work, WorkTold(work), NEW hw, MachineTold(hw), NEW cap \in Nat
  PROVE  Vram(m, hw, work, cap) \in Nat /\ Hbm(hw) \in Nat
<1>1. Vram(m, hw, work, cap) \in Nat
  <2> DEFINE tokens == work.batch * (work.prompt + work.gen)
             kv == KvMb(m, tokens)
             e == ExpertMb(m)
             r == m.weights.resident
  <2>1. tokens \in Nat
    BY DEF WorkTold
  <2>2. kv \in Nat /\ e \in Nat /\ r \in Nat
    BY <2>1, SizeTypes DEF ModelTold
  <2>3. Vram(m, hw, work, cap) = IF hw.cuda THEN r + cap * e + kv ELSE 0
    BY DEF Vram
  <2> HIDE DEF kv, e, r
  <2>4. cap * e \in Nat
    BY <2>2
  <2> QED
    BY <2>2, <2>3, <2>4
<1>2. Hbm(hw) \in Nat
  <2>1. CASE hw.gpus = << >>
    BY <2>1 DEF Hbm
  <2>2. CASE hw.gpus # << >>
    <3>1. hw.gpus[1] \in Nat
      <4>1. hw.gpus \in Seq(Nat)
        BY DEF MachineTold
      <4>2. 1 \in 1 .. Len(hw.gpus)
        BY <2>2, <4>1, EmptySeq, LenProperties
      <4> QED
        BY <4>1, <4>2, ElementOfSeq
    <3>2. 9 * hw.gpus[1] \in Nat
      BY <3>1
    <3> QED
      BY <2>2, <3>2, QuotientIs DEF Hbm
  <2> QED
    BY <2>1, <2>2
<1> QED
  BY <1>1, <1>2

(* A step takes some time, and on a machine that is no worse no more, if   *)
(* it is one a machine with or without a card can do.                      *)
LEMMA StepsFall ==
  ASSUME NEW m, ModelTold(m), NEW work, WorkTold(work),
         NEW hw, MachineTold(hw), NEW other, MachineTold(other), NoWorse(m, hw, other, work),
         NEW place \in {"slots", "cpu"}, place = "slots" => hw.cuda
  PROVE  /\ StepMs(m, hw, work, place) \in Nat \ {0} /\ StepMs(m, other, work, place) \in Nat \ {0}
         /\ StepMs(m, other, work, place) <= StepMs(m, hw, work, place)
<1> DEFINE d == Demand(m, work)
           l == Default(m.layers, 60)
           p == Default(hw.pcie, 50)
           q == Default(other.pcie, 50)
           r == Default(hw.dram, 100)
           s == Default(other.dram, 100)
<1>1. d \in Nat /\ l \in Nat \ {0}
  BY SizeTypes DEF Default, ModelTold
<1>2. p \in Nat \ {0} /\ q \in Nat \ {0} /\ (place = "slots" => p <= q)
  BY DEF Default, MachineTold, NoWorse
<1>3. r \in Nat \ {0} /\ s \in Nat \ {0} /\ r <= s
  BY DEF Default, MachineTold, NoWorse
<1>4. /\ StepMs(m, hw, work, place) = IF place = "slots" THEN (d \div p) + 20 * l ELSE ((10 * d) \div (8 * r)) + ((20 * l) \div 2)
      /\ StepMs(m, other, work, place) = IF place = "slots" THEN (d \div q) + 20 * l ELSE ((10 * d) \div (8 * s)) + ((20 * l) \div 2)
  BY DEF StepMs, FixedMsPerLayer
<1> HIDE DEF d, l, p, q, r, s
<1>5. CASE place = "slots"
  <2>1. (d \div p) \in Nat /\ (d \div q) \in Nat /\ (d \div q) <= (d \div p)
    BY <1>1, <1>2, <1>5, QuotientIs, QuotientFalls
  <2> QED
    BY <1>1, <1>4, <1>5, <2>1
<1>6. CASE place # "slots"
  <2>1. 10 * d \in Nat /\ 8 * r \in Nat \ {0} /\ 8 * s \in Nat \ {0} /\ 8 * r <= 8 * s
    BY <1>1, <1>3
  <2>2. ((10 * d) \div (8 * r)) \in Nat /\ ((10 * d) \div (8 * s)) \in Nat
        /\ ((10 * d) \div (8 * s)) <= ((10 * d) \div (8 * r))
    BY <2>1, QuotientIs, QuotientFalls
  <2>3. (20 * l) \div 2 = 10 * l /\ 10 * l \in Nat \ {0}
    BY <1>1
  <2> QED
    BY <1>4, <1>6, <2>2, <2>3
<1> QED
  BY <1>5, <1>6

(* In less time the throughput is no lower.                                *)
LEMMA ThroughputGrows ==
  ASSUME NEW work, WorkTold(work), NEW ms \in Nat \ {0}, NEW less \in Nat \ {0}, less <= ms
  PROVE  /\ Throughput(work, ms) \in Nat /\ Throughput(work, less) \in Nat
         /\ Throughput(work, ms) <= Throughput(work, less)
<1> DEFINE a == 2 * 100000 * work.batch
<1>1. a \in Nat
  BY DEF WorkTold
<1>2. Throughput(work, ms) = (a + ms) \div (2 * ms) /\ Throughput(work, less) = (a + less) \div (2 * less)
  BY DEF Throughput
<1> HIDE DEF a
<1>3. a + ms \in Nat /\ 2 * ms \in Nat \ {0} /\ a + less \in Nat /\ 2 * less \in Nat \ {0}
  BY <1>1
<1> QED
  BY <1>1, <1>2, <1>3, RateFalls, QuotientIs

(* The ways of serving that are looked at.                                 *)
Ways(fidelity) ==
  {<<"slots", cap>> : cap \in {0, 4, 8, 12, 24, 36}} \cup (IF fidelity = "ulp1" THEN {<<"cpu", 0>>} ELSE {})
Served(m, hw, work, fidelity) == {ServingPlan(m, hw, work, w[1], w[2]) : w \in Ways(fidelity)}

(* What is known of each of them.                                          *)
LEMMA ServedTypes ==
  ASSUME NEW m, ModelTold(m), NEW work, WorkTold(work), NEW hw, MachineTold(hw), NEW fidelity,
         NEW w \in Ways(fidelity)
  PROVE  /\ w[1] \in {"slots", "cpu"} /\ w[2] \in Nat /\ (w[1] = "cpu" => fidelity = "ulp1")
         /\ ServingPlan(m, hw, work, w[1], w[2]).placement = w[1]
         /\ ServingPlan(m, hw, work, w[1], w[2]).capacity = w[2]
         /\ ServingPlan(m, hw, work, w[1], w[2]).tps = Throughput(work, StepMs(m, hw, work, w[1]))
         /\ ServingPlan(m, hw, work, w[1], w[2]).tps \in Nat
         /\ ServingPlan(m, hw, work, w[1], w[2]).fits = (FitsDevice(m, hw, work, w[1], w[2]) /\ FitsRam(m, hw, work))
         /\ ServingPlan(m, hw, work, w[1], w[2]).fits \in BOOLEAN
<1>1. w[1] \in {"slots", "cpu"} /\ w[2] \in Nat /\ (w[1] = "cpu" => fidelity = "ulp1")
  BY DEF Ways
<1>2. Throughput(work, StepMs(m, hw, work, w[1])) \in Nat
  <2> DEFINE d == Demand(m, work)
             l == Default(m.layers, 60)
             p == Default(hw.pcie, 50)
             r == Default(hw.dram, 100)
             ms == StepMs(m, hw, work, w[1])
  <2>1. d \in Nat /\ l \in Nat \ {0} /\ p \in Nat \ {0} /\ r \in Nat \ {0}
    BY SizeTypes DEF Default, ModelTold, MachineTold
  <2>2. ms = IF w[1] = "slots" THEN (d \div p) + 20 * l ELSE ((10 * d) \div (8 * r)) + ((20 * l) \div 2)
    BY DEF StepMs, FixedMsPerLayer
  <2> HIDE DEF d, l, p, r, ms
  <2>3. 10 * d \in Nat /\ 8 * r \in Nat \ {0}
    BY <2>1
  <2>4. (d \div p) \in Nat /\ ((10 * d) \div (8 * r)) \in Nat /\ (20 * l) \div 2 = 10 * l
    BY <2>1, <2>3, QuotientIs
  <2>5. ms \in Nat \ {0}
    BY <2>1, <2>2, <2>4
  <2> QED
    BY <2>5, ThroughputGrows DEF ms
<1> HIDE DEF Ways
<1> QED
  BY <1>1, <1>2 DEF ServingPlan

(* The elements of a list that grows at its end, or in the middle.         *)
LEMMA ElementsGrow ==
  ASSUME NEW S, NEW s \in Seq(S), NEW x \in S, NEW k \in 0 .. Len(s)
  PROVE  /\ Append(s, x) \in Seq(S) /\ ToSet(Append(s, x)) = ToSet(s) \cup {x}
         /\ InsertAt(s, k + 1, x) \in Seq(S) /\ ToSet(InsertAt(s, k + 1, x)) = ToSet(s) \cup {x}
         /\ k = 0 => InsertAt(s, k + 1, x)[1] = x
         /\ k > 0 => InsertAt(s, k + 1, x)[1] = s[1]
<1> DEFINE n == Len(s)
           t == InsertAt(s, k + 1, x)
<1>1. n \in Nat /\ k \in 0 .. n /\ DOMAIN s = 1 .. n /\ s \in [1 .. n -> S] /\ \A i \in 1 .. n : s[i] \in S
  BY LenProperties, ElementOfSeq
<1>2. Append(s, x) \in Seq(S) /\ ToSet(Append(s, x)) = ToSet(s) \cup {x}
  <2>1. /\ Append(s, x) \in Seq(S) /\ Len(Append(s, x)) = n + 1
        /\ \A i \in 1 .. n : Append(s, x)[i] = s[i]
        /\ Append(s, x)[n + 1] = x
    BY AppendProperties
  <2>2. DOMAIN Append(s, x) = (1 .. n) \cup {n + 1}
    BY <1>1, <2>1, LenProperties
  <2> HIDE DEF n
  <2> QED
    BY <1>1, <2>1, <2>2 DEF ToSet
<1> DEFINE a == SubSeq(s, 1, k)
           b == SubSeq(s, k + 1, n)
<1>3. a \in Seq(S) /\ Len(a) = k /\ \A i \in 1 .. k : a[i] = s[i]
  BY <1>1, SubSeqProperties
<1>4. b \in Seq(S) /\ Len(b) = n - k /\ \A i \in 1 .. n - k : b[i] = s[k + i]
  <2>1. k \in Int /\ k + 1 \in Int /\ n \in Int /\ k <= n /\ \A i \in k + 1 .. n : s[i] \in S
    BY <1>1
  <2> HIDE DEF n
  <2>2. /\ b \in Seq(S)
        /\ Len(b) = IF k + 1 <= n THEN n - (k + 1) + 1 ELSE 0
        /\ \A i \in 1 .. n - (k + 1) + 1 : b[i] = s[(k + 1) + i - 1]
    BY <2>1, SubSeqProperties
  <2> HIDE DEF b
  <2>3. ASSUME NEW i \in 1 .. n - k PROVE b[i] = s[k + i]
    <3>1. i \in 1 .. n - (k + 1) + 1 /\ (k + 1) + i - 1 = k + i
      BY <2>1
    <3> QED
      BY <2>2, <3>1
  <2> QED
    BY <2>1, <2>2, <2>3
<1> HIDE DEF n, a, b
<1> DEFINE c == a \o <<x>>
           r == c \o b
<1>5. c \in Seq(S) /\ Len(c) = k + 1 /\ (\A i \in 1 .. k : c[i] = s[i]) /\ c[k + 1] = x
  <2>1. <<x>> \in Seq(S) /\ Len(<<x>>) = 1 /\ <<x>>[1] = x
    OBVIOUS
  <2> QED
    BY <1>1, <1>3, <2>1, ConcatProperties
<1> HIDE DEF c
<1>6. /\ r \in Seq(S) /\ Len(r) = n + 1
      /\ \A i \in 1 .. k : r[i] = s[i]
      /\ r[k + 1] = x
      /\ \A i \in k + 1 .. n : r[i + 1] = s[i]
  <2>1. /\ r \in Seq(S) /\ Len(r) = Len(c) + Len(b)
        /\ \A i \in 1 .. Len(c) + Len(b) : r[i] = IF i <= Len(c) THEN c[i] ELSE b[i - Len(c)]
    BY <1>4, <1>5, ConcatProperties
  <2> HIDE DEF r
  <2>2. Len(r) = n + 1 /\ Len(c) = k + 1 /\ Len(c) + Len(b) = n + 1
    BY <1>1, <1>4, <1>5, <2>1
  <2>3. \A i \in 1 .. k : r[i] = s[i]
    BY <1>1, <1>5, <2>1, <2>2
  <2>4. r[k + 1] = x
    BY <1>1, <1>5, <2>1, <2>2
  <2>5. ASSUME NEW i \in k + 1 .. n PROVE r[i + 1] = s[i]
    <3>1. i + 1 \in 1 .. n + 1 /\ ~(i + 1 <= k + 1) /\ i + 1 - (k + 1) = i - k /\ i - k \in 1 .. n - k /\ k + (i - k) = i
      BY <1>1, <2>5
    <3>2. r[i + 1] = b[i - k]
      BY <2>1, <2>2, <3>1
    <3>3. b[i - k] = s[k + (i - k)]
      BY <1>4, <3>1
    <3> QED
      BY <3>1, <3>2, <3>3
  <2> QED
    BY <2>1, <2>2, <2>3, <2>4, <2>5
<1>7. r = t
  <2>1. (k + 1) - 1 = k
    BY <1>1
  <2> QED
    BY <2>1 DEF InsertAt, r, a, b, c, n
<1> HIDE DEF r, t
<1>8. DOMAIN r = 1 .. n + 1
  BY <1>1, <1>6, LenProperties
<1>9. ToSet(r) = ToSet(s) \cup {x}
  <2>1. ASSUME NEW i \in 1 .. n PROVE s[i] \in ToSet(r)
    <3>1. CASE i \in 1 .. k
      <4>1. i \in 1 .. n + 1 /\ r[i] = s[i]
        BY <1>1, <1>6, <3>1
      <4> QED
        BY <1>8, <4>1 DEF ToSet
    <3>2. CASE i \in k + 1 .. n
      <4>1. i + 1 \in 1 .. n + 1
        BY <1>1, <3>2
      <4> QED
        BY <1>6, <1>8, <3>2, <4>1 DEF ToSet
    <3> QED
      BY <1>1, <3>1, <3>2
  <2>2. ASSUME NEW i \in 1 .. n + 1 PROVE r[i] \in ToSet(s) \cup {x}
    <3>1. CASE i \in 1 .. k
      <4>1. i \in DOMAIN s
        BY <1>1, <3>1
      <4> QED
        BY <1>6, <3>1, <4>1 DEF ToSet
    <3>2. CASE i = k + 1
      BY <1>6, <3>2
    <3>3. CASE i > k + 1
      <4>1. i - 1 \in k + 1 .. n /\ i - 1 \in DOMAIN s /\ (i - 1) + 1 = i
        BY <1>1, <3>3
      <4>2. r[i] = s[i - 1]
        BY <1>6, <4>1
      <4> QED
        BY <4>1, <4>2 DEF ToSet
    <3> QED
      BY <1>1, <3>1, <3>2, <3>3
  <2>3. x \in ToSet(r)
    <3>1. k + 1 \in 1 .. n + 1
      BY <1>1
    <3> QED
      BY <1>6, <1>8, <3>1 DEF ToSet
  <2> QED
    BY <1>1, <1>8, <2>1, <2>2, <2>3 DEF ToSet
<1>10. (k = 0 => r[1] = x) /\ (k > 0 => r[1] = s[1])
  BY <1>1, <1>6
<1> QED
  BY <1>2, <1>6, <1>7, <1>9, <1>10 DEF n, t

(* How many of a list stay before the one that is inserted.                *)
LEMMA StayBounded ==
  ASSUME NEW m, NEW S, NEW s \in Seq(S), NEW x
  PROVE  Cardinality({i \in DOMAIN s : ~Better(m, x, s[i])}) \in 0 .. Len(s)
<1> DEFINE n == Len(s)
           Stay == {i \in DOMAIN s : ~Better(m, x, s[i])}
<1>1. n \in Nat /\ DOMAIN s = 1 .. n
  BY LenProperties
<1>2. Stay \subseteq 1 .. n
  BY <1>1
<1> HIDE DEF Stay, n
<1>3. IsFiniteSet(1 .. n) /\ Cardinality(1 .. n) = n
  <2>1. n \in Int /\ 1 \in Int
    BY <1>1
  <2>2. IsFiniteSet(1 .. n) /\ Cardinality(1 .. n) = IF 1 > n THEN 0 ELSE n - 1 + 1
    BY <2>1, FS_Interval
  <2> QED
    BY <1>1, <2>2
<1>4. IsFiniteSet(Stay) /\ Cardinality(Stay) <= n
  BY <1>2, <1>3, FS_Subset
<1>5. Cardinality(Stay) \in 0 .. n
  BY <1>1, <1>4, FS_CardinalityType
<1> QED
  BY <1>5 DEF Stay, n

(* One element more.                                                       *)
Gains(t, s, x) == ToSet(t) = ToSet(s) \cup {x}

LEMMA InsertElements ==
  ASSUME NEW m, NEW S, NEW s \in Seq(S), NEW x \in S
  PROVE  Insert(m, s, x) \in Seq(S) /\ Gains(Insert(m, s, x), s, x)
<1> DEFINE k == Cardinality({i \in DOMAIN s : ~Better(m, x, s[i])})
<1>1. k \in 0 .. Len(s)
  BY StayBounded
<1>2. Insert(m, s, x) = InsertAt(s, k + 1, x)
  BY DEF Insert
<1> HIDE DEF k
<1>3. InsertAt(s, k + 1, x) \in Seq(S) /\ ToSet(InsertAt(s, k + 1, x)) = ToSet(s) \cup {x}
  BY <1>1, ElementsGrow
<1> QED
  BY <1>2, <1>3 DEF Gains

(* The first of a list is the fastest.                                     *)
Leads(s) == s # << >> => \A c \in ToSet(s) : c.tps <= s[1].tps

Rated(S) == \A c \in S : c.tps \in Nat

(* Inserted where the order says, the first is the fastest again.          *)
LEMMA InsertLeads ==
  ASSUME NEW m, NEW S, Rated(S), NEW s \in Seq(S), Leads(s), NEW x \in S
  PROVE  Leads(Insert(m, s, x))
<1> DEFINE n == Len(s)
           Stay == {i \in DOMAIN s : ~Better(m, x, s[i])}
           k == Cardinality(Stay)
           r == Insert(m, s, x)
<1>1. n \in Nat /\ DOMAIN s = 1 .. n /\ \A i \in 1 .. n : s[i] \in S
  BY LenProperties, ElementOfSeq
<1>2. k \in 0 .. n /\ (k = 0 => Stay = {})
  <2>1. k \in 0 .. n
    BY StayBounded
  <2>2. IsFiniteSet(Stay)
    <3>1. IsFiniteSet(1 .. n) /\ Stay \subseteq 1 .. n
      BY <1>1, FS_Interval
    <3> QED
      BY <3>1, FS_Subset
  <2> HIDE DEF Stay
  <2> QED
    BY <2>1, <2>2, FS_EmptySet
<1>3. r = InsertAt(s, k + 1, x)
  BY DEF Insert
<1> HIDE DEF k, r
<1>4. /\ r \in Seq(S) /\ ToSet(r) = ToSet(s) \cup {x}
      /\ k = 0 => r[1] = x
      /\ k > 0 => r[1] = s[1]
  <2>1. PICK j \in 0 .. Len(s) : j = k
    BY <1>2
  <2>2. r = InsertAt(s, j + 1, x)
    BY <1>3, <2>1
  <2> HIDE DEF n, Stay
  <2> DEFINE t == InsertAt(s, j + 1, x)
  <2>3. /\ t \in Seq(S) /\ ToSet(t) = ToSet(s) \cup {x}
        /\ j = 0 => t[1] = x
        /\ j > 0 => t[1] = s[1]
    BY ElementsGrow
  <2> QED
    BY <2>1, <2>2, <2>3
<1>5. r # << >>
  <2>1. x \in ToSet(r)
    BY <1>4
  <2> QED
    BY <2>1 DEF ToSet
<1>6. \A c \in ToSet(s) : c \in S
  BY <1>1 DEF ToSet
<1>7. CASE k = 0
  <2>1. \A c \in ToSet(s) : Better(m, x, c)
    BY <1>2, <1>7 DEF ToSet
  <2>2. \A c \in ToSet(s) : c.tps <= x.tps
    <3>1. ASSUME NEW c \in ToSet(s) PROVE c.tps <= x.tps
      <4>1. PICK a, b \in Nat : a = c.tps /\ b = x.tps
        BY <1>6 DEF Rated
      <4>2. c.tps > x.tps => ~Better(m, x, c)
        BY <4>1 DEF Better
      <4> QED
        BY <2>1, <4>1, <4>2
    <3> QED
      BY <3>1
  <2>3. x.tps <= x.tps
    BY DEF Rated
  <2>4. Leads(r)
    BY <1>4, <1>7, <2>2, <2>3 DEF Leads
  <2> QED
    BY <1>4, <1>5, <2>4 DEF r
<1>8. CASE k > 0
  <2>1. Stay # {}
    <3> SUFFICES ASSUME Stay = {} PROVE FALSE
      OBVIOUS
    <3> HIDE DEF Stay
    <3>1. Cardinality(Stay) = 0
      BY FS_EmptySet
    <3> QED
      BY <1>8, <3>1 DEF k
  <2>2. PICK i \in 1 .. n : ~Better(m, x, s[i])
    BY <1>1, <2>1
  <2>3. s[1] \in S /\ s[i] \in S /\ s[i] \in ToSet(s) /\ s # << >>
    BY <1>1, <2>2 DEF ToSet
  <2>4. x.tps <= s[i].tps /\ s[i].tps <= s[1].tps
    BY <2>2, <2>3 DEF Better, Leads, Rated
  <2>5. x.tps <= s[1].tps
    <3>1. PICK a, b, c \in Nat : a = x.tps /\ b = s[i].tps /\ c = s[1].tps
      BY <2>3 DEF Rated
    <3> QED
      BY <2>4, <3>1
  <2> QED
    BY <1>4, <1>5, <1>8, <2>3, <2>5 DEF Leads, r
<1> QED
  BY <1>2, <1>4, <1>5, <1>7, <1>8 DEF r

(* What has been judged after k of the candidates.                         *)
JudgedSoFar(j, q, k, S) ==
  /\ j \in [fit : Seq(S), unfit : Seq(S)]
  /\ ToSet(j.fit) = {q[i] : i \in {i \in 1 .. k : q[i].fits}}
  /\ ToSet(j.unfit) = {q[i] : i \in {i \in 1 .. k : ~q[i].fits}}
  /\ Leads(j.fit)

JudgedNext(m, j, c) == IF c.fits THEN [j EXCEPT !.fit = Insert(m, @, c)] ELSE [j EXCEPT !.unfit = Append(@, c)]

(* Judging one more candidate.                                             *)
LEMMA JudgesOn ==
  ASSUME NEW m, NEW S, \A c \in S : c.tps \in Nat /\ c.fits \in BOOLEAN, NEW q \in Seq(S), NEW k \in 1 .. Len(q),
         NEW j, JudgedSoFar(j, q, k - 1, S)
  PROVE  JudgedSoFar(JudgedNext(m, j, q[k]), q, k, S)
<1> DEFINE new == JudgedNext(m, j, q[k])
           Yes(n) == {i \in 1 .. n : q[i].fits}
           No(n) == {i \in 1 .. n : ~q[i].fits}
<1>1. q[k] \in S /\ q[k].fits \in BOOLEAN /\ k \in Nat \ {0} /\ 1 .. k = (1 .. k - 1) \cup {k}
  <2>1. Len(q) \in Nat /\ k \in 1 .. Len(q)
    BY LenProperties
  <2>2. q[k] \in S
    BY <2>1, ElementOfSeq
  <2> QED
    BY <2>1, <2>2
<1>2. /\ j.fit \in Seq(S) /\ j.unfit \in Seq(S) /\ Leads(j.fit)
      /\ ToSet(j.fit) = {q[i] : i \in Yes(k - 1)} /\ ToSet(j.unfit) = {q[i] : i \in No(k - 1)}
  BY DEF JudgedSoFar
<1>3. CASE q[k].fits
  <2> DEFINE r == Insert(m, j.fit, q[k])
  <2>1. r \in Seq(S) /\ ToSet(r) = ToSet(j.fit) \cup {q[k]} /\ Leads(r)
    <3>1. Rated(S)
      BY DEF Rated
    <3>2. PICK f \in Seq(S) : f = j.fit /\ Leads(f)
      BY <1>2
    <3>3. PICK x \in S : x = q[k]
      BY <1>1
    <3> HIDE DEF new
    <3>4. Insert(m, f, x) \in Seq(S)
      BY InsertElements
    <3>5. Gains(Insert(m, f, x), f, x)
      BY InsertElements
    <3>6. Leads(Insert(m, f, x))
      BY <3>1, <3>2, InsertLeads
    <3> QED
      BY <3>2, <3>3, <3>4, <3>5, <3>6 DEF Gains
  <2> HIDE DEF r
  <2>2. new = [fit |-> r, unfit |-> j.unfit]
    BY <1>3 DEF JudgedNext, JudgedSoFar, r
  <2>3. Yes(k) = Yes(k - 1) \cup {k} /\ No(k) = No(k - 1)
    BY <1>1, <1>3
  <2>4. {q[i] : i \in Yes(k)} = {q[i] : i \in Yes(k - 1)} \cup {q[k]}
    BY <2>3
  <2> HIDE DEF Yes, No, new
  <2>5. new \in [fit : Seq(S), unfit : Seq(S)] /\ new.fit = r /\ new.unfit = j.unfit
    BY <1>2, <2>1, <2>2
  <2>6. ToSet(new.fit) = {q[i] : i \in Yes(k)} /\ ToSet(new.unfit) = {q[i] : i \in No(k)} /\ Leads(new.fit)
    BY <1>2, <2>1, <2>3, <2>4, <2>5
  <2> QED
    BY <2>5, <2>6 DEF JudgedSoFar, Yes, No, new
<1>4. CASE ~q[k].fits
  <2> DEFINE r == Append(j.unfit, q[k])
  <2>1. r \in Seq(S) /\ ToSet(r) = ToSet(j.unfit) \cup {q[k]}
    <3>1. 0 \in 0 .. Len(j.unfit)
      BY <1>2, LenProperties
    <3> QED
      BY <1>1, <1>2, <3>1, ElementsGrow
  <2> HIDE DEF r
  <2>2. new = [fit |-> j.fit, unfit |-> r]
    BY <1>4 DEF JudgedNext, JudgedSoFar, r
  <2>3. No(k) = No(k - 1) \cup {k} /\ Yes(k) = Yes(k - 1)
    BY <1>1, <1>4
  <2>4. {q[i] : i \in No(k)} = {q[i] : i \in No(k - 1)} \cup {q[k]}
    BY <2>3
  <2> HIDE DEF Yes, No, new
  <2>5. new \in [fit : Seq(S), unfit : Seq(S)] /\ new.fit = j.fit /\ new.unfit = r
    BY <1>2, <2>1, <2>2
  <2>6. ToSet(new.fit) = {q[i] : i \in Yes(k)} /\ ToSet(new.unfit) = {q[i] : i \in No(k)} /\ Leads(new.fit)
    BY <1>2, <2>1, <2>3, <2>4, <2>5
  <2> QED
    BY <2>5, <2>6 DEF JudgedSoFar, Yes, No, new
<1> QED
  BY <1>1, <1>3, <1>4

(* All the candidates that fit, and all the others; the fastest first.     *)
LEMMA JudgedAll ==
  ASSUME NEW m, NEW S, \A c \in S : c.tps \in Nat /\ c.fits \in BOOLEAN, NEW q \in Seq(S)
  PROVE  JudgedSoFar(Judged(m, q), q, Len(q), S)
<1> DEFINE n == Len(q)
           D == [fit : Seq(S), unfit : Seq(S)]
           none == [fit |-> << >>, unfit |-> << >>]
           step == [x \in (1 .. n) \X D |-> JudgedNext(m, x[2], q[x[1]])]
           Next(g) == [T \in SUBSET DOMAIN q |-> IF T = {} THEN none ELSE
             IF q[Max(T)].fits THEN [g[T \ {Max(T)}] EXCEPT !.fit = Insert(m, @, q[Max(T)])]
             ELSE [g[T \ {Max(T)}] EXCEPT !.unfit = Append(@, q[Max(T)])]]
           table == CHOOSE g : g = Next(g)
<1>1. n \in Nat /\ DOMAIN q = 1 .. n /\ \A k \in 1 .. n : q[k] \in S
  BY LenProperties, ElementOfSeq
<1>2. Judged(m, q) = table[1 .. n]
  BY <1>1 DEF Judged, FoldLeft, MapThenFoldSet
<1> HIDE DEF n
<1>3. none \in D /\ \A k \in 1 .. n : \A d \in D : JudgedNext(m, d, q[k]) \in D
  <2>1. none \in D
    BY EmptySeq
  <2>2. ASSUME NEW k \in 1 .. n, NEW d \in D PROVE JudgedNext(m, d, q[k]) \in D
    <3>1. q[k] \in S /\ d.fit \in Seq(S) /\ d.unfit \in Seq(S)
      BY <1>1, <2>2
    <3>2. Insert(m, d.fit, q[k]) \in Seq(S)
      BY <3>1, InsertElements
    <3>3. Append(d.unfit, q[k]) \in Seq(S)
      BY <3>1, AppendProperties
    <3> QED
      BY <3>1, <3>2, <3>3 DEF JudgedNext
  <2> QED
    BY <2>1, <2>2
<1> HIDE DEF D, none
<1>4. Advances(step, 1 .. n, D)
  BY <1>3 DEF Advances
<1>5. PICK h : FoldTabulates(h, n, D, none, step)
  BY <1>1, <1>3, <1>4, FoldTable
<1>6. h = Next(h)
  <2>1. ASSUME NEW T \in SUBSET (1 .. n), T # {} PROVE h[T] = JudgedNext(m, h[T \ {Max(T)}], q[Max(T)])
    <3>1. Max(T) \in 1 .. n /\ h[T \ {Max(T)}] \in D /\ h[T] = step[<<Max(T), h[T \ {Max(T)}]>>]
      BY <1>5, <2>1 DEF FoldTabulates
    <3> QED
      BY <3>1
  <2> QED
    BY <1>1, <1>5, <2>1 DEF FoldTabulates, JudgedNext
<1>7. table = Next(table)
  BY <1>6
<1> HIDE DEF table
<1>8. table[{}] = none
  BY <1>7
<1>9. ASSUME NEW k \in 1 .. n PROVE table[1 .. k] = JudgedNext(m, table[1 .. k - 1], q[k])
  <2>1. k \in Nat \ {0} /\ 1 .. k # {} /\ 1 .. k \in SUBSET DOMAIN q
    <3>1. k \in Nat \ {0} /\ k \in 1 .. k /\ 1 .. k \subseteq 1 .. n
      BY <1>1
    <3> QED
      BY <1>1, <3>1
  <2>2. Max(1 .. k) = k /\ (1 .. k) \ {k} = 1 .. k - 1
    BY <2>1, MaxOfFirst
  <2> QED
    BY <1>7, <2>1, <2>2 DEF JudgedNext
<1> DEFINE G == {k \in 0 .. n : JudgedSoFar(table[1 .. k], q, k, S)}
<1>10. 0 \in G
  <2>1. 1 .. 0 = {} /\ 0 \in 0 .. n
    BY <1>1
  <2>2. none \in D /\ ToSet(none.fit) = {} /\ ToSet(none.unfit) = {} /\ Leads(none.fit)
    <3>1. none.fit = << >> /\ none.unfit = << >>
      BY DEF none
    <3>2. ToSet(<< >>) = {} /\ Leads(<< >>)
      BY DEF ToSet, Leads
    <3> QED
      BY <1>3, <3>1, <3>2
  <2>3. JudgedSoFar(none, q, 0, S)
    BY <2>1, <2>2 DEF JudgedSoFar, D
  <2> QED
    BY <1>8, <2>1, <2>3
<1>11. ASSUME NEW k \in 1 .. n, k - 1 \in G PROVE k \in G
  <2>1. JudgedSoFar(table[1 .. k - 1], q, k - 1, S)
    BY <1>11
  <2>2. k \in 1 .. Len(q) /\ table[1 .. k] = JudgedNext(m, table[1 .. k - 1], q[k])
    BY <1>9 DEF n
  <2> DEFINE j == table[1 .. k - 1]
  <2> HIDE DEF j
  <2>3. JudgedSoFar(j, q, k - 1, S)
    BY <2>1 DEF j
  <2>4. JudgedSoFar(JudgedNext(m, j, q[k]), q, k, S)
    BY <2>2, <2>3, JudgesOn
  <2>5. JudgedSoFar(table[1 .. k], q, k, S)
    BY <2>2, <2>4 DEF j
  <2> QED
    BY <1>1, <2>5
<1> HIDE DEF G, step, table
<1>12. n \in G
  <2>1. \A k \in 1 .. n : k - 1 \in G => k \in G
    BY <1>11
  <2>2. n \in 0 .. n
    BY <1>1
  <2> QED
    BY <1>1, <1>10, <2>1, <2>2, Upwards
<1> QED
  BY <1>2, <1>12 DEF G, n

(* The ways of serving, one after the other.                               *)
LEMMA CandidatesAre ==
  ASSUME NEW m, NEW hw, NEW work, NEW fidelity
  PROVE  /\ Candidates(m, hw, work, fidelity) \in Seq(Served(m, hw, work, fidelity))
         /\ Len(Candidates(m, hw, work, fidelity)) >= 6
         /\ \A w \in Ways(fidelity) : \E i \in 1 .. Len(Candidates(m, hw, work, fidelity)) :
              Candidates(m, hw, work, fidelity)[i] = ServingPlan(m, hw, work, w[1], w[2])
<1> DEFINE P(place, cap) == ServingPlan(m, hw, work, place, cap)
           S == Served(m, hw, work, fidelity)
           caps == <<0, 4, 8, 12, 24, 36>>
           a == [k \in 1 .. 6 |-> P("slots", caps[k])]
           b == IF fidelity = "ulp1" THEN <<P("cpu", 0)>> ELSE << >>
           q == Candidates(m, hw, work, fidelity)
<1>1. q = a \o b
  BY DEF Candidates
<1>2. \A k \in 1 .. 6 : P("slots", caps[k]) \in S
  <2>1. \A k \in 1 .. 6 : caps[k] \in {0, 4, 8, 12, 24, 36}
    OBVIOUS
  <2>2. \A cap \in {0, 4, 8, 12, 24, 36} : <<"slots", cap>> \in Ways(fidelity) /\ <<"slots", cap>>[1] = "slots" /\ <<"slots", cap>>[2] = cap
    BY DEF Ways
  <2>3. \A cap \in {0, 4, 8, 12, 24, 36} : P("slots", cap) \in S
    BY <2>2 DEF Served
  <2> HIDE DEF P, S, caps
  <2> QED
    BY <2>1, <2>3
<1>3. fidelity = "ulp1" => P("cpu", 0) \in S
  <2> SUFFICES ASSUME fidelity = "ulp1" PROVE P("cpu", 0) \in S
    OBVIOUS
  <2>1. <<"cpu", 0>> \in Ways(fidelity) /\ <<"cpu", 0>>[1] = "cpu" /\ <<"cpu", 0>>[2] = 0
    BY DEF Ways
  <2> QED
    BY <2>1 DEF Served
<1> HIDE DEF S, q
<1>4. a \in Seq(S) /\ Len(a) = 6 /\ \A k \in 1 .. 6 : a[k] = P("slots", caps[k])
  <2>1. a \in [1 .. 6 -> S]
    BY <1>2
  <2>2. a \in Seq(S)
    BY <2>1, SeqDef
  <2> QED
    BY <2>1, <2>2, LenProperties
<1>5. b \in Seq(S) /\ Len(b) = (IF fidelity = "ulp1" THEN 1 ELSE 0) /\ (fidelity = "ulp1" => b[1] = P("cpu", 0))
  <2>1. CASE fidelity = "ulp1"
    <3> DEFINE p == P("cpu", 0)
    <3>1. b = <<p>> /\ p \in S
      BY <1>3, <2>1
    <3> HIDE DEF p, b
    <3>2. b \in Seq(S) /\ Len(b) = 1 /\ b[1] = p
      BY <3>1
    <3> QED
      BY <2>1, <3>2 DEF p
  <2>2. CASE fidelity # "ulp1"
    <3>1. b = << >>
      BY <2>2
    <3> QED
      BY <2>2, <3>1, EmptySeq
  <2> QED
    BY <2>1, <2>2
<1> HIDE DEF a, b, P
<1>6. /\ q \in Seq(S) /\ Len(q) = 6 + Len(b)
      /\ \A i \in 1 .. 6 : q[i] = a[i]
      /\ fidelity = "ulp1" => q[7] = b[1]
  <2>1. /\ q \in Seq(S) /\ Len(q) = Len(a) + Len(b)
        /\ \A i \in 1 .. Len(a) + Len(b) : q[i] = IF i <= Len(a) THEN a[i] ELSE b[i - Len(a)]
    BY <1>1, <1>4, <1>5, ConcatProperties
  <2>2. \A i \in 1 .. 6 : q[i] = a[i]
    BY <1>4, <1>5, <2>1
  <2>3. fidelity = "ulp1" => q[7] = b[1]
    <3> SUFFICES ASSUME fidelity = "ulp1" PROVE q[7] = b[1]
      OBVIOUS
    <3>1. 7 \in 1 .. Len(a) + Len(b) /\ ~(7 <= Len(a)) /\ 7 - Len(a) = 1
      BY <1>4, <1>5
    <3> QED
      BY <2>1, <3>1
  <2> QED
    BY <1>4, <2>1, <2>2, <2>3
<1>7. Len(q) \in {6, 7} /\ (fidelity = "ulp1" => Len(q) = 7)
  BY <1>5, <1>6
<1>8. ASSUME NEW w \in Ways(fidelity) PROVE \E i \in 1 .. Len(q) : q[i] = P(w[1], w[2])
  <2>1. CASE \E cap \in {0, 4, 8, 12, 24, 36} : w = <<"slots", cap>>
    <3>1. PICK cap \in {0, 4, 8, 12, 24, 36} : w = <<"slots", cap>>
      BY <2>1
    <3>2. w[1] = "slots" /\ w[2] = cap
      BY <3>1
    <3>3. \E k \in 1 .. 6 : caps[k] = cap
      <4>1. caps[1] = 0 /\ caps[2] = 4 /\ caps[3] = 8 /\ caps[4] = 12 /\ caps[5] = 24 /\ caps[6] = 36
        OBVIOUS
      <4> HIDE DEF caps
      <4> QED
        BY <4>1
    <3>4. PICK k \in 1 .. 6 : caps[k] = cap
      BY <3>3
    <3> HIDE DEF caps
    <3>5. q[k] = P("slots", cap) /\ k \in 1 .. Len(q)
      BY <1>4, <1>6, <1>7, <3>4
    <3> QED
      BY <3>2, <3>5
  <2>2. CASE fidelity = "ulp1" /\ w = <<"cpu", 0>>
    <3>1. w[1] = "cpu" /\ w[2] = 0
      BY <2>2
    <3>2. 7 \in 1 .. Len(q) /\ q[7] = P("cpu", 0)
      BY <1>5, <1>6, <1>7, <2>2
    <3> QED
      BY <3>1, <3>2
  <2> QED
    BY <1>8, <2>1, <2>2 DEF Ways
<1> QED
  BY <1>6, <1>7, <1>8 DEF P, S, q

(* What a plan says of the ways of serving.                                *)
PlanTells(plan, S) ==
  /\ plan.feasible = (\E c \in S : c.fits)
  /\ ToSet(plan.candidates) = S
  /\ plan.feasible =>
       plan.recommended[1] \in S /\ plan.recommended[1].fits /\ \A c \in S : c.fits => c.tps <= plan.recommended[1].tps
  /\ ~plan.feasible => ~plan.recommended[1].fits
  /\ plan.recommended # << >>

LEMMA PlanIs ==
  ASSUME NEW m, ModelTold(m), NEW work, WorkTold(work), NEW hw, MachineTold(hw), NEW fidelity, m.routed # 0
  PROVE  PlanTells(Plan(m, hw, work, fidelity), Served(m, hw, work, fidelity))
<1> DEFINE S == Served(m, hw, work, fidelity)
           q == Candidates(m, hw, work, fidelity)
           j == Judged(m, q)
           plan == Plan(m, hw, work, fidelity)
<1>1. \A c \in S : c.tps \in Nat /\ c.fits \in BOOLEAN
  <2> SUFFICES ASSUME NEW c \in S PROVE c.tps \in Nat /\ c.fits \in BOOLEAN
    OBVIOUS
  <2>1. PICK w \in Ways(fidelity) : c = ServingPlan(m, hw, work, w[1], w[2])
    BY DEF Served
  <2> QED
    BY <2>1, ServedTypes
<1>2. /\ q \in Seq(S) /\ Len(q) >= 6
      /\ \A c \in S : \E i \in 1 .. Len(q) : q[i] = c
  <2>1. /\ q \in Seq(S) /\ Len(q) >= 6
        /\ \A w \in Ways(fidelity) : \E i \in 1 .. Len(q) : q[i] = ServingPlan(m, hw, work, w[1], w[2])
    BY CandidatesAre
  <2> QED
    BY <2>1 DEF Served
<1>3. plan = [feasible |-> j.fit # << >>, recommended |-> <<IF j.fit # << >> THEN j.fit[1] ELSE Last(q)>>,
              candidates |-> j.fit \o j.unfit, reasons |-> IF j.fit # << >> THEN {} ELSE {"noneFits"}]
  BY DEF Plan
<1> HIDE DEF S, q
<1>4. JudgedSoFar(j, q, Len(q), S)
  BY <1>1, <1>2, JudgedAll
<1> HIDE DEF j, plan
<1>5. Len(q) \in Nat /\ \A i \in 1 .. Len(q) : q[i] \in S
  BY <1>2, LenProperties, ElementOfSeq
<1>6. j.fit \in Seq(S) /\ j.unfit \in Seq(S) /\ Leads(j.fit)
      /\ ToSet(j.fit) = {c \in S : c.fits} /\ ToSet(j.unfit) = {c \in S : ~c.fits}
  <2>1. \A i \in 1 .. Len(q) : i \in {i1 \in 1 .. Len(q) : q[i1].fits} <=> q[i].fits
    OBVIOUS
  <2>2. {q[i] : i \in {i1 \in 1 .. Len(q) : q[i1].fits}} = {c \in S : c.fits}
    BY <1>2, <1>5
  <2>3. {q[i] : i \in {i1 \in 1 .. Len(q) : ~q[i1].fits}} = {c \in S : ~c.fits}
    BY <1>2, <1>5
  <2> QED
    BY <1>4, <2>2, <2>3 DEF JudgedSoFar
<1>7. j.fit # << >> <=> \E c \in S : c.fits
  <2>1. j.fit # << >> => j.fit[1] \in ToSet(j.fit)
    <3> SUFFICES ASSUME j.fit # << >> PROVE j.fit[1] \in ToSet(j.fit)
      OBVIOUS
    <3>1. Len(j.fit) \in Nat \ {0} /\ DOMAIN j.fit = 1 .. Len(j.fit)
      BY <1>6, LenProperties, EmptySeq
    <3>2. 1 \in DOMAIN j.fit
      BY <3>1
    <3> QED
      BY <3>2 DEF ToSet
  <2>2. j.fit = << >> => ToSet(j.fit) = {}
    BY DEF ToSet
  <2> QED
    BY <1>6, <2>1, <2>2
<1>8. plan.recommended # << >> /\ plan.recommended[1] = IF j.fit # << >> THEN j.fit[1] ELSE Last(q)
  BY <1>3
<1>9. ToSet(plan.candidates) = S
  <2>1. plan.candidates = j.fit \o j.unfit
    BY <1>3
  <2>2. ToSet(j.fit \o j.unfit) = ToSet(j.fit) \cup ToSet(j.unfit)
    BY <1>6, ConcatEntries
  <2> QED
    BY <1>6, <2>1, <2>2
<1>10. j.fit # << >> => j.fit[1] \in {c \in S : c.fits} /\ \A c \in S : c.fits => c.tps <= j.fit[1].tps
  <2> SUFFICES ASSUME j.fit # << >> PROVE j.fit[1] \in {c \in S : c.fits} /\ \A c \in S : c.fits => c.tps <= j.fit[1].tps
    OBVIOUS
  <2>1. Len(j.fit) \in Nat \ {0} /\ DOMAIN j.fit = 1 .. Len(j.fit)
    BY <1>6, LenProperties, EmptySeq
  <2>2. 1 \in DOMAIN j.fit
    BY <2>1
  <2>3. j.fit[1] \in ToSet(j.fit)
    BY <2>2 DEF ToSet
  <2> QED
    BY <1>6, <2>3 DEF Leads
<1>11. Last(q) \in S
  <2>1. Len(q) \in 1 .. Len(q)
    BY <1>2, <1>5
  <2> QED
    BY <1>5, <2>1 DEF Last
<1>12. plan.feasible = (j.fit # << >>)
  BY <1>3
<1> QED
  BY <1>7, <1>8, <1>9, <1>10, <1>11, <1>12 DEF PlanTells, plan, S

(* The host serves without slots.                                          *)
LEMMA OnlyHost ==
  ASSUME NEW fidelity, NEW w \in Ways(fidelity), w[1] = "cpu"
  PROVE  w[2] = 0
BY DEF Ways

(* The same way of serving on a machine that is no worse.                  *)
LEMMA WayStillFits ==
  ASSUME NEW m, ModelTold(m), NEW work, WorkTold(work), NEW hw, MachineTold(hw),
         NEW other, MachineTold(other), NoWorse(m, hw, other, work), NEW fidelity, NEW w \in Ways(fidelity),
         ServingPlan(m, hw, work, w[1], w[2]).fits
  PROVE  /\ ServingPlan(m, other, work, w[1], w[2]).fits
         /\ ServingPlan(m, hw, work, w[1], w[2]).tps <= ServingPlan(m, other, work, w[1], w[2]).tps
<1>1. w[1] \in {"slots", "cpu"} /\ w[2] \in Nat
  BY ServedTypes
<1>2. PICK place \in {"slots", "cpu"}, cap \in Nat : place = w[1] /\ cap = w[2]
  BY <1>1
<1>3. FitsDevice(m, hw, work, place, cap) /\ FitsRam(m, hw, work)
  BY <1>2, ServedTypes
<1>4. FitsDevice(m, other, work, place, cap)
  <2>1. PICK v, y \in Nat : v = Vram(m, other, work, cap) /\ y = Hbm(other)
    BY VramTypes
  <2>2. CASE hw.cuda
    <3>1. other.cuda /\ Hbm(hw) <= Hbm(other)
      BY <2>2 DEF NoWorse
    <3>2. Vram(m, hw, work, cap) = Vram(m, other, work, cap)
      BY <2>2, <3>1 DEF Vram
    <3>3. PICK x \in Nat : x = Hbm(hw)
      BY VramTypes
    <3>4. v <= x /\ x <= y
      BY <1>3, <2>1, <2>2, <3>1, <3>2, <3>3 DEF FitsDevice
    <3>5. v <= y
      BY <3>4
    <3> QED
      BY <2>1, <3>1, <3>5 DEF FitsDevice
  <2>3. CASE ~hw.cuda
    <3>1. place = "cpu" /\ cap = 0
      BY <1>2, <1>3, <2>3, OnlyHost DEF FitsDevice
    <3>2. other.cuda => Vram(m, other, work, 0) <= Hbm(other)
      BY <2>3 DEF NoWorse
    <3> QED
      BY <3>1, <3>2 DEF FitsDevice
  <2> QED
    BY <2>2, <2>3
<1>5. FitsRam(m, other, work)
  <2>1. PICK r, d, x, y \in Nat : r = m.weights.resident /\ d = Demand(m, work) /\ x = hw.ram /\ y = other.ram
    BY SizeTypes DEF ModelTold, MachineTold
  <2>2. (x > 0) = (y > 0) /\ x <= y
    BY <2>1 DEF NoWorse
  <2>3. x > 0 => r + d <= x
    BY <1>3, <2>1 DEF FitsRam
  <2> QED
    BY <2>1, <2>2, <2>3 DEF FitsRam
<1>6. PICK ms \in Nat \ {0}, less \in Nat \ {0} :
        ms = StepMs(m, hw, work, place) /\ less = StepMs(m, other, work, place) /\ less <= ms
  <2>1. place = "slots" => hw.cuda
    BY <1>3 DEF FitsDevice, MachineTold
  <2> QED
    BY <2>1, StepsFall
<1>7. Throughput(work, ms) <= Throughput(work, less)
  BY <1>6, ThroughputGrows
<1> QED
  BY <1>2, <1>4, <1>5, <1>6, <1>7, ServedTypes

(* More hardware never hurts, whatever the model and the machines.         *)
LEMMA HardwareNeverHurts ==
  ASSUME NEW m, ModelTold(m), NEW work, WorkTold(work), NEW hw, MachineTold(hw), NEW fidelity,
         NEW others, \A other \in others : MachineTold(other)
  PROVE  MoreHardwareNeverHurts(m, hw, others, work, fidelity)
<1> DEFINE S(h) == Served(m, h, work, fidelity)
           P(h, w) == ServingPlan(m, h, work, w[1], w[2])
           plan(h) == Plan(m, h, work, fidelity)
<1>1. CASE m.routed = 0
  <2>1. \A h : plan(h) = NotMoe
    BY <1>1 DEF Plan
  <2>2. Table(NotMoe).reasons # {}
    <3>1. "notMoe" \in Table(NotMoe).reasons
      BY DEF Table, NotMoe
    <3> QED
      BY <3>1
  <2>3. ~NotMoe.feasible /\ ToSet(NotMoe.candidates) = {}
    BY DEF NotMoe, ToSet
  <2> QED
    BY <2>1, <2>2, <2>3 DEF MoreHardwareNeverHurts
<1>2. CASE m.routed # 0
  <2>1. \A h : MachineTold(h) => PlanTells(plan(h), S(h))
    BY <1>2, PlanIs
  <2> HIDE DEF S, plan
  <2>2. ~plan(hw).feasible => Table(plan(hw)).reasons # {}
    <3> SUFFICES ASSUME ~plan(hw).feasible PROVE Table(plan(hw)).reasons # {}
      OBVIOUS
    <3>1. plan(hw).reasons = {"noneFits"}
      BY <1>2 DEF plan, Plan
    <3>2. "noneFits" \in Table(plan(hw)).reasons
      BY <3>1 DEF Table
    <3> QED
      BY <3>2
  <2>3. ASSUME NEW c \in ToSet(plan(hw).candidates), c.fits
        PROVE  c.tps <= plan(hw).recommended[1].tps /\ (c.placement = "slots" => hw.cuda)
    <3>1. c \in S(hw) /\ plan(hw).feasible /\ c.tps <= plan(hw).recommended[1].tps
      BY <2>1, <2>3 DEF PlanTells
    <3>2. PICK w \in Ways(fidelity) : c = P(hw, w)
      BY <3>1 DEF S, Served
    <3>3. FitsDevice(m, hw, work, w[1], w[2]) /\ c.placement = w[1]
      BY <2>3, <3>2, ServedTypes
    <3>4. hw.cuda \in BOOLEAN /\ (~hw.cuda => w[1] = "cpu")
      BY <3>3 DEF FitsDevice, MachineTold
    <3> QED
      BY <3>1, <3>3, <3>4
  <2>4. ASSUME NEW other \in others, plan(hw).feasible, NoWorse(m, hw, other, work)
        PROVE  /\ plan(other).feasible
               /\ plan(other).recommended[1].tps >= plan(hw).recommended[1].tps
               /\ \A c \in ToSet(plan(hw).candidates) : c.fits =>
                    \E d \in ToSet(plan(other).candidates) : d.placement = c.placement /\ d.capacity = c.capacity /\ d.fits
    <3>1. PlanTells(plan(hw), S(hw)) /\ PlanTells(plan(other), S(other)) /\ MachineTold(other)
      BY <2>1
    <3>2. ASSUME NEW c \in S(hw), c.fits
          PROVE  \E d \in S(other) : d.placement = c.placement /\ d.capacity = c.capacity /\ d.fits
                                     /\ c.tps \in Nat /\ d.tps \in Nat /\ c.tps <= d.tps
      <4>1. PICK w \in Ways(fidelity) : c = P(hw, w)
        BY DEF S, Served
      <4>2. P(other, w).fits /\ c.tps <= P(other, w).tps
        BY <2>4, <3>1, <3>2, <4>1, WayStillFits
      <4>3. c.placement = w[1] /\ c.capacity = w[2] /\ c.tps \in Nat
        BY <4>1, ServedTypes
      <4>4. P(other, w).placement = w[1] /\ P(other, w).capacity = w[2] /\ P(other, w).tps \in Nat
        BY <3>1, ServedTypes
      <4>5. P(other, w) \in S(other)
        BY DEF S, Served
      <4> QED
        BY <4>2, <4>3, <4>4, <4>5
    <3> HIDE DEF P
    <3>3. PICK c : c = plan(hw).recommended[1] /\ c \in S(hw) /\ c.fits
      BY <2>4, <3>1 DEF PlanTells
    <3>4. PICK d \in S(other) : d.fits /\ c.tps \in Nat /\ d.tps \in Nat /\ c.tps <= d.tps
      BY <3>2, <3>3
    <3>5. plan(other).feasible
      BY <3>1, <3>4 DEF PlanTells
    <3>6. PICK e : e = plan(other).recommended[1] /\ e \in S(other) /\ e.fits /\ d.tps <= e.tps
      BY <3>1, <3>4, <3>5 DEF PlanTells
    <3>7. e.tps \in Nat
      <4>1. PICK w \in Ways(fidelity) : e = P(other, w)
        BY <3>6 DEF S, Served, P
      <4> QED
        BY <3>1, <4>1, ServedTypes DEF P
    <3>8. e.tps >= c.tps
      <4>1. PICK x, y, z \in Nat : x = c.tps /\ y = d.tps /\ z = e.tps
        BY <3>4, <3>7
      <4> QED
        BY <3>4, <3>6, <4>1
    <3>9. \A c1 \in ToSet(plan(hw).candidates) : c1.fits =>
            \E d1 \in ToSet(plan(other).candidates) : d1.placement = c1.placement /\ d1.capacity = c1.capacity /\ d1.fits
      <4>1. ToSet(plan(hw).candidates) = S(hw) /\ ToSet(plan(other).candidates) = S(other)
        BY <3>1 DEF PlanTells
      <4> QED
        BY <3>2, <4>1
    <3> QED
      BY <3>3, <3>5, <3>6, <3>8, <3>9
  <2> QED
    BY <2>2, <2>3, <2>4 DEF MoreHardwareNeverHurts, plan
<1> QED
  BY <1>1, <1>2

(* What is inspected are numbers.                                          *)
ModelTensors == [container : {"none", "experts", "local_experts", "routed_experts"}, shared : BOOLEAN,
            role : {"gate", "up", "down", "embedding", "other"}, mb : Nat,
            type : {"BF16", "F16", "F32", "F8", "U8"}, shape : Seq(Nat)]
WeighedAs(type) == [total : Nat, resident : Nat, routed : Nat, type : {type}, experts : Nat, hidden : Nat, inter : Nat]

(* One tensor more.                                                        *)
LEMMA InspectedType ==
  ASSUME NEW type, NEW seen \in WeighedAs(type), NEW t \in ModelTensors
  PROVE  Inspected(seen, t) \in WeighedAs(type)
<1>1. PICK mb, total, resident, routed, experts \in Nat :
        mb = t.mb /\ total = seen.total /\ resident = seen.resident /\ routed = seen.routed /\ experts = seen.experts
  BY DEF ModelTensors, WeighedAs
<1>2. Len(t.shape) = 2 => t.shape[1] \in Nat /\ t.shape[2] \in Nat
  <2>1. t.shape \in Seq(Nat)
    BY DEF ModelTensors
  <2> QED
    BY <2>1, ElementOfSeq
<1>3. seen.hidden \in Nat /\ seen.inter \in Nat
  BY DEF WeighedAs
<1> DEFINE inter == IF seen.inter = 0 /\ Len(t.shape) = 2 /\ t.role \in {"gate", "up"} THEN t.shape[1] ELSE seen.inter
           hidden == IF Len(t.shape) = 2 /\ t.role = "embedding" THEN t.shape[2] ELSE seen.hidden
<1>4. inter \in Nat /\ hidden \in Nat
  BY <1>2, <1>3
<1>5. Inspected(seen, t) =
        IF IsRoutedKey(t)
        THEN [seen EXCEPT !.total = total + mb, !.routed = routed + mb, !.experts = experts + 1, !.inter = inter]
        ELSE [seen EXCEPT !.total = total + mb, !.resident = resident + mb, !.hidden = hidden]
  BY <1>1 DEF Inspected, WeighedAs
<1> HIDE DEF inter, hidden
<1>6. total + mb \in Nat /\ routed + mb \in Nat /\ resident + mb \in Nat /\ experts + 1 \in Nat
  OBVIOUS
<1> QED
  BY <1>4, <1>5, <1>6 DEF WeighedAs

(* All of them.                                                            *)
LEMMA InspectHandlesType ==
  ASSUME NEW tensors \in Seq(ModelTensors)
  PROVE  InspectHandles(tensors) \in WeighedAs(TopType(tensors))
<1> DEFINE n == Len(tensors)
           D == WeighedAs(TopType(tensors))
           none == [total |-> 0, resident |-> 0, routed |-> 0, type |-> TopType(tensors), experts |-> 0, hidden |-> 0, inter |-> 0]
           step == [x \in (1 .. n) \X D |-> Inspected(x[2], tensors[x[1]])]
           Next(g) == [T \in SUBSET DOMAIN tensors |->
             IF T = {} THEN none ELSE Inspected(g[T \ {Max(T)}], tensors[Max(T)])]
           table == CHOOSE g : g = Next(g)
<1>1. n \in Nat /\ DOMAIN tensors = 1 .. n /\ \A k \in 1 .. n : tensors[k] \in ModelTensors
  BY LenProperties, ElementOfSeq
<1>2. InspectHandles(tensors) = table[1 .. n]
  BY <1>1 DEF InspectHandles, FoldLeft, MapThenFoldSet
<1> HIDE DEF n
<1>3. none \in D /\ \A k \in 1 .. n : \A d \in D : Inspected(d, tensors[k]) \in D
  <2>1. none \in D
    BY DEF WeighedAs
  <2> QED
    BY <1>1, <2>1, InspectedType
<1> HIDE DEF D, none
<1>4. Advances(step, 1 .. n, D)
  BY <1>3 DEF Advances
<1>5. PICK h : FoldTabulates(h, n, D, none, step)
  BY <1>1, <1>3, <1>4, FoldTable
<1>6. h = Next(h)
  <2>1. ASSUME NEW T \in SUBSET (1 .. n), T # {} PROVE h[T] = Inspected(h[T \ {Max(T)}], tensors[Max(T)])
    <3>1. Max(T) \in 1 .. n /\ h[T \ {Max(T)}] \in D /\ h[T] = step[<<Max(T), h[T \ {Max(T)}]>>]
      BY <1>5, <2>1 DEF FoldTabulates
    <3> QED
      BY <3>1
  <2> QED
    BY <1>1, <1>5, <2>1 DEF FoldTabulates
<1>7. table = Next(table)
  BY <1>6
<1> HIDE DEF table
<1> DEFINE G == {k \in 0 .. n : table[1 .. k] \in D}
<1>8. 0 \in G
  <2>1. 1 .. 0 = {} /\ 0 \in 0 .. n
    BY <1>1
  <2>2. table[{}] = none
    BY <1>7
  <2> QED
    BY <1>3, <2>1, <2>2
<1>9. ASSUME NEW k \in 1 .. n, k - 1 \in G PROVE k \in G
  <2>1. k \in Nat \ {0} /\ 1 .. k # {} /\ 1 .. k \in SUBSET DOMAIN tensors
    <3>1. k \in Nat \ {0} /\ k \in 1 .. k /\ 1 .. k \subseteq 1 .. n
      BY <1>1
    <3> QED
      BY <1>1, <3>1
  <2>2. Max(1 .. k) = k /\ (1 .. k) \ {k} = 1 .. k - 1
    BY <2>1, MaxOfFirst
  <2>3. table[1 .. k] = Inspected(table[1 .. k - 1], tensors[k])
    BY <1>7, <2>1, <2>2
  <2>4. table[1 .. k] \in D
    BY <1>3, <1>9, <2>3
  <2> QED
    BY <1>1, <2>4
<1> HIDE DEF G
<1>10. n \in G
  BY <1>1, <1>8, <1>9, Upwards
<1> QED
  BY <1>2, <1>10 DEF G, D

(* The planner is told of a model, of machines and of work.                *)
LEMMA PlannerIsTold ==
  ASSUME NEW m \in Models, NEW c \in Commands
  PROVE  /\ ModelTold(DescribeModel(m.tensors, m.profile))
         /\ \A other \in Machines : MachineTold(Probe(other))
<1>1. m.tensors \in Seq(ModelTensors) /\ m.profile \in [experts : Nat, shared : Nat, perToken : Nat, layers : Nat]
  BY InferAssumption DEF ModelTensors
<1>2. InspectHandles(m.tensors) \in WeighedAs(TopType(m.tensors))
  BY <1>1, InspectHandlesType
<1>3. ModelTold(DescribeModel(m.tensors, m.profile))
  BY <1>1, <1>2 DEF ModelTold, DescribeModel, WeighedAs
<1>4. ASSUME NEW other \in Machines PROVE MachineTold(Probe(other))
  <2>1. other \in [cuda : BOOLEAN, cards : Seq(Nat), pcie : Nat, dram : Nat, ram : Nat, bf16 : BOOLEAN]
    BY InferAssumption
  <2>2. << >> \in Seq(Nat)
    BY EmptySeq
  <2>3. Probe(other).gpus \in Seq(Nat)
    BY <2>1, <2>2 DEF Probe
  <2> QED
    BY <2>1, <2>3 DEF MachineTold, Probe
<1> QED
  BY <1>3, <1>4

(* Where the flags come from once a tier is to be chosen: from the command *)
(* line, or from a way of serving the plan has found to fit.               *)
FlagsGiven == [tier |-> command.tier, capacity |-> command.capacity, mode |-> command.mode]
AppliedPlan ==
  /\ command.planApply /\ result.feasible
  /\ \E c \in ToSet(result.candidates) :
       /\ c.fits /\ c.placement \in {"slots", "cpu"} /\ c.capacity \in Nat
       /\ c.placement = "cpu" => command.planFidelity = "ulp1"
       /\ flags.tier = c.placement /\ flags.capacity = c.capacity

Choosing == todo \in {"resolve", "open", "engine"}

(* The inductive invariant of the command.                                 *)
InferInv ==
  /\ command \in Commands /\ yaml \in Yamls /\ machine \in Machines /\ model \in Models
  /\ ~command.plan => flags = FlagsGiven
  /\ prompts \in Nat
  /\ (todo = "config" /\ ~command.plan) => prompts > 0
  /\ (todo \in {"plan", "apply"} \/ Choosing) => serving = Configured
  /\ todo \in {"plan", "apply"} => command.plan
  /\ todo = "apply" => command.planApply /\ result = Planned
  /\ Choosing => prompts > 0 /\ (command.plan => AppliedPlan)
  /\ todo = "open" => Tier # "off" /\ ~TierRefused
  /\ todo = "engine" => Tier = "off"
  /\ (todo \in {"prompts", "config", "plan", "apply"} \/ Choosing) => served = << >>
  /\ ServedAsDecided /\ HostOnlyIfAllowed

(* It holds before the command starts.                                     *)
LEMMA InferStarts == ASSUME InferInit PROVE InferInv
BY DEF InferInit, InferInv, FlagsGiven, Choosing, ServedAsDecided, HostOnlyIfAllowed

(* What is recommended and fits is one of the ways of the plan.            *)
LEMMA RecommendedFits ==
  ASSUME InferInv, todo = "apply", Recommended
  PROVE  /\ result.feasible /\ result.recommended[1] \in ToSet(result.candidates) /\ result.recommended[1].fits
         /\ result.recommended[1].placement \in {"slots", "cpu"} /\ result.recommended[1].capacity \in Nat
         /\ result.recommended[1].placement = "cpu" => command.planFidelity = "ulp1"
<1> DEFINE m == DescribeModel(model.tensors, model.profile)
           hw == Probe(machine)
           f == command.planFidelity
           S == Served(m, hw, Work, f)
           c == result.recommended[1]
<1>1. result = Plan(m, hw, Work, f) /\ result.recommended # << >> /\ c.fits
  BY DEF InferInv, Planned, Recommended
<1>2. ModelTold(m) /\ MachineTold(hw)
  BY PlannerIsTold DEF InferInv
<1>3. WorkTold(Work)
  <2>1. command.planBatch \in Nat
    BY InferAssumption DEF InferInv
  <2> QED
    BY <2>1 DEF WorkTold, Work
<1> HIDE DEF m, hw, f
<1>4. m.routed # 0
  <2>1. m.routed = 0 => result = NotMoe
    BY <1>1 DEF Plan
  <2> QED
    BY <1>1, <2>1 DEF NotMoe
<1>5. PlanTells(result, S)
  BY <1>1, <1>2, <1>3, <1>4, PlanIs
<1>6. result.feasible /\ c \in S /\ c \in ToSet(result.candidates)
  BY <1>1, <1>5 DEF PlanTells
<1>7. PICK w \in Ways(f) : c = ServingPlan(m, hw, Work, w[1], w[2])
  BY <1>6 DEF Served
<1>8. c.placement \in {"slots", "cpu"} /\ c.capacity \in Nat /\ (c.placement = "cpu" => f = "ulp1")
  BY <1>2, <1>3, <1>7, ServedTypes
<1> QED
  BY <1>1, <1>6, <1>8 DEF f

(* What serves was decided by the flags.                                   *)
LEMMA TierIsDecided ==
  ASSUME InferInv, ServeTiered
  PROVE  (ServedAsDecided /\ HostOnlyIfAllowed)'
<1>1. /\ Choosing /\ prompts > 0 /\ serving = Configured /\ ~TierRefused
      /\ (command.plan => AppliedPlan) /\ (~command.plan => flags = FlagsGiven)
  BY DEF InferInv, ServeTiered, Choosing
<1>2. /\ served' = [by |-> "tier", tier |-> Tier, capacity |-> Capacity, chunk |-> Chunk, handles |-> Handles,
                    budget |-> command.maxNew, teacher |-> command.teacher, prompts |-> prompts]
      /\ UNCHANGED <<command, yaml, result>>
  BY DEF ServeTiered, Keep
<1>3. served'.by = "tier" /\ served'.tier = Tier /\ served'.capacity = Capacity /\ served'.prompts = prompts
  BY <1>2
<1>4. CASE command.plan
  <2>1. PICK c \in ToSet(result.candidates) :
          /\ c.fits /\ c.placement \in {"slots", "cpu"} /\ c.capacity \in Nat
          /\ c.placement = "cpu" => command.planFidelity = "ulp1"
          /\ flags.tier = c.placement /\ flags.capacity = c.capacity
    BY <1>1, <1>4 DEF AppliedPlan
  <2>2. Tier = c.placement
    BY <2>1 DEF Tier, OrElse
  <2>3. Capacity = c.capacity
    BY <2>1 DEF Capacity, IfGiven, None
  <2>4. command.planApply /\ result.feasible
    BY <1>1, <1>4 DEF AppliedPlan
  <2>5. ServedAsDecided'
    BY <1>1, <1>2, <1>3, <1>4, <2>1, <2>2, <2>3, <2>4 DEF ServedAsDecided
  <2>6. HostOnlyIfAllowed'
    BY <1>2, <1>3, <1>4, <2>1, <2>2 DEF HostOnlyIfAllowed
  <2> QED
    BY <2>5, <2>6
<1>5. CASE ~command.plan
  <2>1. flags.tier = command.tier /\ flags.capacity = command.capacity /\ flags.mode = command.mode
    BY <1>1, <1>5 DEF FlagsGiven
  <2>2. command.capacity # None => Capacity = command.capacity
    BY <2>1 DEF Capacity, IfGiven
  <2>3. command.tier # "none" => Tier = command.tier
    BY <2>1 DEF Tier, OrElse
  <2>4. Tier = "cpu" => OrElse(command.mode, yaml.mode) = "ulp1"
    <3>1. "mode" \in DOMAIN yaml
      BY InferAssumption DEF InferInv
    <3>2. serving.mode = yaml.mode
      BY <1>1, <3>1 DEF Configured
    <3> QED
      BY <1>1, <2>1, <3>2 DEF TierRefused, Mode
  <2>5. ServedAsDecided'
    BY <1>1, <1>2, <1>3, <1>5, <2>2, <2>3 DEF ServedAsDecided
  <2>6. HostOnlyIfAllowed'
    BY <1>2, <1>3, <2>4 DEF HostOnlyIfAllowed
  <2> QED
    BY <2>5, <2>6
<1> QED
  BY <1>4, <1>5

(* The engine serves only what no plan has a tier for.                     *)
LEMMA EngineIsDecided ==
  ASSUME InferInv, GenerateByEngine
  PROVE  (ServedAsDecided /\ HostOnlyIfAllowed)'
<1>1. Choosing /\ prompts > 0 /\ Tier = "off" /\ (command.plan => AppliedPlan)
  BY DEF InferInv, GenerateByEngine, Choosing
<1>2. ~command.plan
  BY <1>1 DEF AppliedPlan, Tier, OrElse
<1>3. served'.by = "engine" /\ served'.prompts = prompts /\ UNCHANGED <<command, yaml, result>>
  BY DEF GenerateByEngine, Keep
<1> QED
  BY <1>1, <1>2, <1>3 DEF ServedAsDecided, HostOnlyIfAllowed

(* Every step of the command keeps it.                                     *)
LEMMA InferKeeps ==
  ASSUME InferInv, [InferNext]_inferVars
  PROVE  InferInv'
<1> DEFINE Stays == UNCHANGED <<command, yaml, machine, model, prompts, flags, serving, result, served>>
<1>1. ASSUME Stays, todo' \notin {"prompts", "config", "plan", "apply", "resolve", "open", "engine"} PROVE InferInv'
  BY <1>1 DEF InferInv, FlagsGiven, Choosing, ServedAsDecided, HostOnlyIfAllowed
<1>2. CASE ReadPrompts
  BY <1>2 DEF ReadPrompts, Goes, Keep, InferInv, FlagsGiven, Choosing, ServedAsDecided, HostOnlyIfAllowed
<1>3. CASE BuildConfig
  <2>1. /\ todo = "config" /\ serving' = Configured /\ todo' = (IF command.plan THEN "plan" ELSE "resolve")
        /\ UNCHANGED <<command, yaml, machine, model, prompts, flags, result, served>>
    BY <1>3 DEF BuildConfig, Goes, Keep
  <2>2. Configured' = Configured
    BY <2>1 DEF Configured
  <2> QED
    BY <2>1, <2>2 DEF InferInv, FlagsGiven, Choosing, ServedAsDecided, HostOnlyIfAllowed
<1>4. CASE PlanModel
  <2>1. /\ todo = "plan" /\ result' = Planned /\ todo' = (IF command.planApply THEN "apply" ELSE "done")
        /\ UNCHANGED <<command, yaml, machine, model, prompts, flags, serving, served>>
    BY <1>4 DEF PlanModel, Goes, Keep
  <2>2. Configured' = Configured /\ Planned' = Planned
    BY <2>1 DEF Configured, Planned, Work
  <2>3. served = << >> /\ command.plan
    BY <2>1 DEF InferInv
  <2> QED
    BY <2>1, <2>2, <2>3 DEF InferInv, FlagsGiven, Choosing, ServedAsDecided, HostOnlyIfAllowed
<1>5. CASE ApplyPlan
  <2>1. /\ todo = "apply" /\ Recommended /\ prompts > 0 /\ todo' = "resolve"
        /\ flags' = [tier |-> result.recommended[1].placement, capacity |-> result.recommended[1].capacity,
                     mode |-> IF result.recommended[1].placement = "cpu" THEN "ulp1" ELSE flags.mode]
        /\ UNCHANGED <<command, yaml, machine, model, prompts, serving, result, served>>
    BY <1>5 DEF ApplyPlan, Goes, Keep
  <2>2. Configured' = Configured
    BY <2>1 DEF Configured
  <2>3. command.plan /\ command.planApply
    BY <2>1 DEF InferInv
  <2>4. AppliedPlan'
    BY <2>1, <2>3, RecommendedFits DEF AppliedPlan
  <2> QED
    BY <2>1, <2>2, <2>3, <2>4 DEF InferInv, FlagsGiven, Choosing, ServedAsDecided, HostOnlyIfAllowed
<1>6. CASE ResolveTier
  <2>1. /\ todo = "resolve" /\ (Tier # "off" => ~TierRefused) /\ todo' = (IF Tier = "off" THEN "engine" ELSE "open")
        /\ UNCHANGED <<command, yaml, machine, model, prompts, flags, serving, result, served>>
    BY <1>6 DEF ResolveTier, Goes, Keep
  <2>2. Configured' = Configured /\ Tier' = Tier /\ TierRefused' = TierRefused /\ AppliedPlan' = AppliedPlan
    <3>1. Configured' = Configured
      BY <2>1 DEF Configured
    <3>2. Tier' = Tier /\ Mode' = Mode
      BY <2>1 DEF Tier, Mode
    <3>3. TierRefused' = TierRefused
      BY <2>1, <3>2 DEF TierRefused
    <3>4. AppliedPlan' = AppliedPlan
      BY <2>1 DEF AppliedPlan
    <3> QED
      BY <3>1, <3>2, <3>3, <3>4
  <2> QED
    BY <2>1, <2>2 DEF InferInv, FlagsGiven, Choosing, ServedAsDecided, HostOnlyIfAllowed
<1>7. CASE ServeTiered
  <2>1. todo' = "report" /\ UNCHANGED <<command, yaml, machine, model, prompts, flags, serving, result>>
    BY <1>7 DEF ServeTiered, Goes, Keep
  <2>2. (ServedAsDecided /\ HostOnlyIfAllowed)'
    BY <1>7, TierIsDecided
  <2> QED
    BY <2>1, <2>2 DEF InferInv, FlagsGiven, Choosing
<1>8. CASE GenerateByEngine
  <2>1. todo' = "report" /\ UNCHANGED <<command, yaml, machine, model, prompts, flags, serving, result>>
    BY <1>8 DEF GenerateByEngine, Goes, Keep
  <2>2. (ServedAsDecided /\ HostOnlyIfAllowed)'
    BY <1>8, EngineIsDecided
  <2> QED
    BY <2>1, <2>2 DEF InferInv, FlagsGiven, Choosing
<1>9. CASE NoPrompts \/ NothingToPlan \/ NothingToApply \/ RefuseTier \/ UnboundBudget \/ Report
  BY <1>1, <1>9 DEF NoPrompts, NothingToPlan, NothingToApply, RefuseTier, UnboundBudget, Report, Usage, Goes, Keep
<1>10. CASE UNCHANGED inferVars
  <2>1. UNCHANGED <<command, yaml, machine, model, todo, prompts, flags, serving, result, served>>
    BY <1>10 DEF inferVars
  <2>2. Configured' = Configured /\ Tier' = Tier /\ Mode' = Mode /\ AppliedPlan' = AppliedPlan /\ Planned' = Planned
    BY <2>1 DEF Configured, Tier, Mode, AppliedPlan, Planned, Work
  <2>3. TierRefused' = TierRefused
    BY <2>1, <2>2 DEF TierRefused
  <2> QED
    BY <2>1, <2>2, <2>3 DEF InferInv, FlagsGiven, Choosing, ServedAsDecided, HostOnlyIfAllowed
<1> QED
  BY <1>2, <1>3, <1>4, <1>5, <1>6, <1>7, <1>8, <1>9, <1>10 DEF InferNext

(* It gives what is claimed of plans and serving.                          *)
LEMMA InferInvSuffices == InferInv => PlansAreSound
<1> SUFFICES ASSUME InferInv PROVE PlansAreSound
  OBVIOUS
<1> DEFINE m == DescribeModel(model.tensors, model.profile)
           hw == Probe(machine)
           others == {Probe(o) : o \in Machines}
<1>1. ModelTold(m) /\ MachineTold(hw) /\ \A other \in others : MachineTold(other)
  BY PlannerIsTold DEF InferInv
<1>2. WorkTold(Work)
  <2>1. command.planBatch \in Nat
    BY InferAssumption DEF InferInv
  <2> QED
    BY <2>1 DEF WorkTold, Work
<1>3. MoreHardwareNeverHurts(m, hw, others, Work, command.planFidelity)
  <2> HIDE DEF m, hw, others
  <2> QED
    BY <1>1, <1>2, HardwareNeverHurts
<1> QED
  BY <1>3 DEF PlansAreSound, InferInv

(* What is planned is sound and what is served is what was decided, in     *)
(* every state: the recommendation fits and nothing that fits is faster,   *)
(* no plan gets worse on a machine that is no worse, and the tier and its  *)
(* capacity are those of the flags or of the applied plan.                 *)
THEOREM InferenceAlwaysAsDecided == MCSetupSpec => []InferenceAsDecided
<1> DEFINE Inv == part = "infer" => InferInv
<1>1. MCSetupInit => Inv
  BY InferStarts DEF MCSetupInit
<1>2. Inv /\ [MCSetupNext]_mcVars => Inv'
  <2> SUFFICES ASSUME Inv, [MCSetupNext]_mcVars, part' = "infer" PROVE InferInv'
    OBVIOUS
  <2>1. part = "infer" /\ [InferNext]_inferVars
    BY DEF MCSetupNext, mcVars
  <2> QED
    BY <2>1, InferKeeps
<1>3. Inv => InferenceAsDecided
  BY InferInvSuffices DEF InferenceAsDecided
<1> QED
  BY <1>1, <1>2, <1>3, PTL DEF MCSetupSpec

(***************************************************************************)
(* Loss and loads of the routers                                           *)
(***************************************************************************)

(***************************************************************************)
(* The loss and the loads of the routers                                   *)
(*                                                                         *)
(* The loss of a layer multiplies, for every column, the tokens that chose *)
(* it with the shares all tokens give it.  Counted by pairs of tokens this *)
(* is the share token t gives to the columns token s chose, and t gives no *)
(* columns more than those it chose itself.                                *)
(***************************************************************************)

(* A sum is what any table of the sums over subsets ends with.             *)
LEMMA SumIs ==
  ASSUME NEW S, IsFiniteSet(S), NEW f \in [S -> Int], NEW h, Sums(h, f, S)
  PROVE  SumFunction(f) = h[S]
<1>1. \A x \in S : f[x] \in Int
  OBVIOUS
<1>2. PICK k : Sums(k, f, S) /\ FoldFunctionOnSet(+, 0, f, S) = k[S]
  BY <1>1, SumTable
<1>3. k[S] = h[S]
  <2>1. PICK A, B, g : A = S /\ B = S /\ g = f
    OBVIOUS
  <2>2. S \subseteq A /\ S \subseteq B /\ (\A x \in S : f[x] = g[x]) /\ Sums(k, f, A) /\ Sums(h, g, B)
    BY <1>2, <2>1
  <2> QED
    BY <2>2, SumsAgree
<1>4. SumFunction(f) = FoldFunctionOnSet(+, 0, f, S)
  BY DEF SumFunction, SumFunctionOnSet
<1> QED
  BY <1>2, <1>3, <1>4

(* There is such a table: the fold behind a sum has a solution.            *)
LEMMA SumHasTable ==
  ASSUME NEW S, IsFiniteSet(S), NEW f \in [S -> Int]
  PROVE  \E h : Sums(h, f, S) /\ SumFunction(f) = h[S] /\ h[S] \in Int
<1>1. \A x \in S : f[x] \in Int
  OBVIOUS
<1>2. PICK k : Sums(k, f, S)
  BY <1>1, SumTable
<1>3. SumFunction(f) = k[S]
  BY <1>2, SumIs
<1>4. k[S] \in Int
  BY <1>2 DEF Sums
<1> QED
  BY <1>2, <1>3, <1>4

(* The sum of nothing.                                                     *)
LEMMA SumOfNone == ASSUME NEW f \in [{} -> Int] PROVE SumFunction(f) = 0
<1> DEFINE h == [T \in SUBSET {} |-> 0]
<1>1. Sums(h, f, {}) /\ h[{}] = 0
  BY DEF Sums
<1> HIDE DEF h
<1>2. PICK S : S = {}
  OBVIOUS
<1>3. IsFiniteSet(S) /\ f \in [S -> Int] /\ Sums(h, f, S)
  BY <1>1, <1>2, FS_EmptySet
<1>4. SumFunction(f) = h[S]
  BY <1>3, SumIs
<1> QED
  BY <1>1, <1>2, <1>4

(* Sums of naturals.                                                       *)
LEMMA SumOfNaturals ==
  ASSUME NEW S, IsFiniteSet(S), NEW f \in [S -> Nat]
  PROVE  SumFunction(f) \in Nat
<1>1. f \in [S -> Int] /\ \A x \in S : f[x] \in Nat
  OBVIOUS
<1>2. PICK h : Sums(h, f, S) /\ SumFunction(f) = h[S] /\ h[S] \in Int
  BY <1>1, SumHasTable
<1>3. 0 <= h[S]
  BY <1>1, <1>2, SumsGrow
<1> QED
  BY <1>2, <1>3

(* The sum of two functions, term by term.                                 *)
LEMMA SumAdds ==
  ASSUME NEW S, IsFiniteSet(S), NEW f \in [S -> Int], NEW g \in [S -> Int]
  PROVE  SumFunction([x \in S |-> f[x] + g[x]]) = SumFunction(f) + SumFunction(g)
<1>1. PICK h : Sums(h, f, S) /\ SumFunction(f) = h[S]
  BY SumHasTable
<1>2. PICK k : Sums(k, g, S) /\ SumFunction(g) = k[S]
  BY SumHasTable
<1> DEFINE both == [x \in S |-> f[x] + g[x]]
           table == [T \in SUBSET S |-> h[T] + k[T]]
<1>3. Sums(table, both, S)
  <2>1. table \in [SUBSET S -> Int] /\ table[{}] = 0
    BY <1>1, <1>2 DEF Sums
  <2>2. ASSUME NEW T \in SUBSET S, NEW x \in T
        PROVE  table[T] = both[x] + table[T \ {x}]
    <3>1. h[T] = f[x] + h[T \ {x}] /\ k[T] = g[x] + k[T \ {x}] /\ T \ {x} \in SUBSET S
      BY <1>1, <1>2 DEF Sums
    <3>2. PICK a \in Int, b \in Int, c \in Int, d \in Int : a = f[x] /\ b = g[x] /\ c = h[T \ {x}] /\ d = k[T \ {x}]
      BY <1>1, <1>2, <3>1 DEF Sums
    <3>3. table[T] = (a + c) + (b + d) /\ both[x] = a + b /\ table[T \ {x}] = c + d
      BY <3>1, <3>2
    <3>4. (a + c) + (b + d) = (a + b) + (c + d)
      BY <3>2
    <3> QED
      BY <3>3, <3>4
  <2> HIDE DEF table, both
  <2> QED
    BY <2>1, <2>2 DEF Sums
<1>4. both \in [S -> Int]
  OBVIOUS
<1> HIDE DEF both
<1>5. SumFunction(both) = table[S]
  BY <1>3, <1>4, SumIs
<1> QED
  BY <1>1, <1>2, <1>5 DEF both

(* A factor of all terms is one of the sum.                                *)
LEMMA SumScales ==
  ASSUME NEW S, IsFiniteSet(S), NEW f \in [S -> Int], NEW c \in Int
  PROVE  SumFunction([x \in S |-> c * f[x]]) = c * SumFunction(f)
<1>1. PICK h : Sums(h, f, S) /\ SumFunction(f) = h[S]
  BY SumHasTable
<1> DEFINE scaled == [x \in S |-> c * f[x]]
           table == [T \in SUBSET S |-> c * h[T]]
<1>0. \A a, b \in Int : c * a \in Int /\ c * (a + b) = c * a + c * b /\ c * 0 = 0
  OBVIOUS
<1>3. Sums(table, scaled, S)
  <2>1. table \in [SUBSET S -> Int] /\ table[{}] = 0
    BY <1>0, <1>1 DEF Sums
  <2>2. ASSUME NEW T \in SUBSET S, NEW x \in T
        PROVE  table[T] = scaled[x] + table[T \ {x}]
    <3>1. h[T] = f[x] + h[T \ {x}] /\ T \ {x} \in SUBSET S
      BY <1>1 DEF Sums
    <3>2. PICK a \in Int, b \in Int : a = f[x] /\ b = h[T \ {x}]
      BY <1>1, <3>1 DEF Sums
    <3>3. table[T] = c * (a + b) /\ scaled[x] = c * a /\ table[T \ {x}] = c * b
      BY <3>1, <3>2
    <3> QED
      BY <1>0, <3>2, <3>3
  <2> HIDE DEF table, scaled
  <2> QED
    BY <2>1, <2>2 DEF Sums
<1>4. scaled \in [S -> Int]
  BY <1>0
<1> HIDE DEF scaled
<1>5. SumFunction(scaled) = table[S]
  BY <1>3, <1>4, SumIs
<1> QED
  BY <1>1, <1>5 DEF scaled

(* What is larger everywhere is larger in sum.                             *)
LEMMA SumGrows ==
  ASSUME NEW S, IsFiniteSet(S), NEW f \in [S -> Int], NEW g \in [S -> Int], \A x \in S : f[x] <= g[x]
  PROVE  SumFunction(f) <= SumFunction(g)
<1> DEFINE more == [x \in S |-> g[x] - f[x]]
<1>1. more \in [S -> Nat] /\ more \in [S -> Int]
  OBVIOUS
<1>2. g = [x \in S |-> f[x] + more[x]]
  OBVIOUS
<1> HIDE DEF more
<1>3. SumFunction([x \in S |-> f[x] + more[x]]) = SumFunction(f) + SumFunction(more)
  BY <1>1, SumAdds
<1>4. SumFunction(more) \in Nat
  BY <1>1, SumOfNaturals
<1>5. SumFunction(f) \in Int
  BY SumHasTable
<1> QED
  BY <1>2, <1>3, <1>4, <1>5

(* Counting is summing ones.                                               *)
LEMMA SumCounts ==
  ASSUME NEW S, IsFiniteSet(S), NEW A \in SUBSET S
  PROVE  SumFunction([x \in S |-> IF x \in A THEN 1 ELSE 0]) = Cardinality(A)
<1> DEFINE one == [x \in S |-> IF x \in A THEN 1 ELSE 0]
           table == [T \in SUBSET S |-> Cardinality(T \cap A)]
<1>1. \A T \in SUBSET S : IsFiniteSet(T \cap A) /\ Cardinality(T \cap A) \in Nat
  <2> TAKE T \in SUBSET S
  <2>1. T \cap A \in SUBSET S
    OBVIOUS
  <2> QED
    BY <2>1, FS_Subset, FS_CardinalityType
<1>2. Sums(table, one, S)
  <2>1. table \in [SUBSET S -> Int] /\ table[{}] = 0
    <3>1. {} \cap A = {}
      OBVIOUS
    <3> QED
      BY <1>1, <3>1, FS_EmptySet
  <2>2. ASSUME NEW T \in SUBSET S, NEW x \in T
        PROVE  table[T] = one[x] + table[T \ {x}]
    <3>1. (T \ {x}) \cap A = (T \cap A) \ {x} /\ T \ {x} \in SUBSET S /\ x \in S
      OBVIOUS
    <3>2. Cardinality((T \cap A) \ {x}) = IF x \in T \cap A THEN Cardinality(T \cap A) - 1 ELSE Cardinality(T \cap A)
      BY <1>1, FS_RemoveElement
    <3>3. PICK m \in Nat : m = Cardinality(T \cap A)
      BY <1>1
    <3>4. table[T] = m /\ table[T \ {x}] = (IF x \in A THEN m - 1 ELSE m) /\ one[x] = (IF x \in A THEN 1 ELSE 0)
      BY <3>1, <3>2, <3>3
    <3> QED
      BY <3>4
  <2> HIDE DEF table, one
  <2> QED
    BY <2>1, <2>2 DEF Sums
<1>3. one \in [S -> Int] /\ S \cap A = A
  OBVIOUS
<1> HIDE DEF one
<1>4. SumFunction(one) = table[S]
  BY <1>2, <1>3, SumIs
<1> QED
  BY <1>3, <1>4 DEF one

(* The same number everywhere in a part, and nothing outside it.           *)
LEMMA SumOfConstant ==
  ASSUME NEW S, IsFiniteSet(S), NEW A \in SUBSET S, NEW c \in Int
  PROVE  SumFunction([x \in S |-> IF x \in A THEN c ELSE 0]) = c * Cardinality(A)
<1> DEFINE one == [x \in S |-> IF x \in A THEN 1 ELSE 0]
<1>1. one \in [S -> Int]
  OBVIOUS
<1>2. SumFunction(one) = Cardinality(A)
  BY SumCounts
<1>3. \A x \in S : c * one[x] = IF x \in A THEN c ELSE 0
  OBVIOUS
<1> HIDE DEF one
<1>4. SumFunction([x \in S |-> c * one[x]]) = c * SumFunction(one)
  BY <1>1, SumScales
<1>5. [x \in S |-> c * one[x]] = [x \in S |-> IF x \in A THEN c ELSE 0]
  BY <1>3
<1> QED
  BY <1>2, <1>4, <1>5

(* The same number everywhere.                                             *)
LEMMA SumOfSame ==
  ASSUME NEW S, IsFiniteSet(S), NEW c \in Int
  PROVE  SumFunction([x \in S |-> c]) = c * Cardinality(S)
<1>1. S \in SUBSET S /\ [x \in S |-> c] = [x \in S |-> IF x \in S THEN c ELSE 0]
  OBVIOUS
<1> QED
  BY <1>1, SumOfConstant

(* A sum does not depend on the names of its terms.                        *)
LEMMA SumRenames ==
  ASSUME NEW A, IsFiniteSet(A), NEW B, IsFiniteSet(B), NEW b \in [A -> B],
         \A x, y \in A : b[x] = b[y] => x = y, \A z \in B : \E x \in A : b[x] = z,
         NEW f \in [B -> Int]
  PROVE  SumFunction([x \in A |-> f[b[x]]]) = SumFunction(f)
<1>1. PICK h : Sums(h, f, B) /\ SumFunction(f) = h[B]
  BY SumHasTable
<1> DEFINE image == [T \in SUBSET A |-> {b[x] : x \in T}]
           table == [T \in SUBSET A |-> h[image[T]]]
           named == [x \in A |-> f[b[x]]]
<1>2. /\ image \in [SUBSET A -> SUBSET B] /\ image[{}] = {} /\ image[A] = B
      /\ \A T \in SUBSET A : \A x \in T : b[x] \in image[T] /\ image[T \ {x}] = image[T] \ {b[x]}
  OBVIOUS
<1> HIDE DEF image
<1>3. Sums(table, named, A)
  <2>1. table \in [SUBSET A -> Int] /\ table[{}] = 0
    BY <1>1, <1>2 DEF Sums
  <2>2. ASSUME NEW T \in SUBSET A, NEW x \in T
        PROVE  table[T] = named[x] + table[T \ {x}]
    <3>1. image[T] \in SUBSET B /\ b[x] \in image[T] /\ image[T \ {x}] = image[T] \ {b[x]} /\ T \ {x} \in SUBSET A /\ x \in A
      BY <1>2
    <3>2. \A U \in SUBSET B : \A z \in U : h[U] = f[z] + h[U \ {z}]
      BY <1>1 DEF Sums
    <3>3. h[image[T]] = f[b[x]] + h[image[T] \ {b[x]}]
      BY <3>1, <3>2
    <3> QED
      BY <3>1, <3>3
  <2> HIDE DEF table, named
  <2> QED
    BY <2>1, <2>2 DEF Sums
<1>4. named \in [A -> Int]
  OBVIOUS
<1> HIDE DEF named
<1>5. SumFunction(named) = table[A]
  BY <1>3, <1>4, SumIs
<1>6. table[A] = h[B]
  BY <1>2
<1> QED
  BY <1>1, <1>5, <1>6 DEF named

(* The sum of a table, row by row and column by column.                    *)
Numbers(A, B, g) == \A a \in A, b \in B : g[a][b] \in Int
ByRows(A, B, g) == SumFunction([a \in A |-> SumFunction([b \in B |-> g[a][b]])])
ByColumns(A, B, g) == SumFunction([b \in B |-> SumFunction([a \in A |-> g[a][b]])])

(* The order of two sums does not matter.                                  *)
LEMMA SumsSwap ==
  ASSUME NEW A, IsFiniteSet(A), NEW B, IsFiniteSet(B), NEW g, Numbers(A, B, g)
  PROVE  ByRows(A, B, g) = ByColumns(A, B, g)
<1> DEFINE line == [a \in A |-> [b \in B |-> g[a][b]]]
           col == [b \in B |-> [a \in A |-> g[a][b]]]
           tab == [b \in B |-> CHOOSE h : Sums(h, col[b], A)]
           below == [T \in SUBSET A |-> [b \in B |-> tab[b][T]]]
           table == [T \in SUBSET A |-> SumFunction(below[T])]
           across == [a \in A |-> SumFunction(line[a])]
<1>1. \A a \in A : line[a] \in [B -> Int]
  BY DEF Numbers
<1>2. \A b \in B : col[b] \in [A -> Int]
  BY DEF Numbers
<1>3. \A a \in A, b \in B : line[a][b] = col[b][a]
  OBVIOUS
<1>4. across = [a \in A |-> SumFunction([b \in B |-> g[a][b]])]
  OBVIOUS
<1>5. [b \in B |-> SumFunction(col[b])] = [b \in B |-> SumFunction([a \in A |-> g[a][b]])]
  OBVIOUS
<1> HIDE DEF line, col
<1>6. \A b \in B : Sums(tab[b], col[b], A)
  <2> TAKE b \in B
  <2>1. \E h : Sums(h, col[b], A)
    BY <1>2, SumHasTable
  <2> QED
    BY <2>1
<1> HIDE DEF tab
<1>7. \A T \in SUBSET A : below[T] \in [B -> Int]
  BY <1>6 DEF Sums
<1>8. \A T \in SUBSET A : \A x \in T : below[T] = [b \in B |-> line[x][b] + below[T \ {x}][b]]
  <2> TAKE T \in SUBSET A
  <2> TAKE x \in T
  <2>1. T \ {x} \in SUBSET A /\ x \in A
    OBVIOUS
  <2>2. \A b \in B : tab[b][T] = col[b][x] + tab[b][T \ {x}]
    BY <1>6 DEF Sums
  <2>3. \A b \in B : below[T][b] = tab[b][T] /\ below[T \ {x}][b] = tab[b][T \ {x}] /\ line[x][b] = col[b][x]
    BY <1>3, <2>1
  <2>4. below[T] = [b \in B |-> below[T][b]]
    BY <2>1
  <2> HIDE DEF below
  <2> QED
    BY <2>2, <2>3, <2>4
<1>9. below[{}] = [b \in B |-> 0]
  BY <1>6 DEF Sums
<1>10. below[A] = [b \in B |-> SumFunction(col[b])]
  <2>1. \A b \in B : SumFunction(col[b]) = tab[b][A]
    BY <1>2, <1>6, SumIs
  <2> QED
    BY <2>1
<1> HIDE DEF below
<1>11. \A T \in SUBSET A : SumFunction(below[T]) \in Int
  BY <1>7, SumHasTable
<1>12. \A a \in A : SumFunction(line[a]) \in Int
  BY <1>1, SumHasTable
<1>13. Sums(table, across, A)
  <2>1. SumFunction([b \in B |-> 0]) = 0
    <3>1. Cardinality(B) \in Nat
      BY FS_CardinalityType
    <3>2. PICK c \in Int : c = 0
      OBVIOUS
    <3>3. SumFunction([b \in B |-> c]) = c * Cardinality(B)
      BY SumOfSame
    <3> QED
      BY <3>1, <3>2, <3>3
  <2>2. table \in [SUBSET A -> Int] /\ table[{}] = 0
    BY <1>9, <1>11, <2>1
  <2>3. ASSUME NEW T \in SUBSET A, NEW x \in T
        PROVE  table[T] = across[x] + table[T \ {x}]
    <3>1. T \ {x} \in SUBSET A /\ x \in A
      OBVIOUS
    <3>2. PICK p, q : p = line[x] /\ q = below[T \ {x}] /\ p \in [B -> Int] /\ q \in [B -> Int]
      BY <1>1, <1>7, <3>1
    <3>3. below[T] = [b \in B |-> p[b] + q[b]]
      BY <1>8, <3>2
    <3>4. SumFunction([b \in B |-> p[b] + q[b]]) = SumFunction(p) + SumFunction(q)
      BY <3>2, SumAdds
    <3>5. SumFunction(below[T]) = SumFunction(line[x]) + SumFunction(below[T \ {x}])
      BY <3>2, <3>3, <3>4
    <3> QED
      BY <3>1, <3>5
  <2> HIDE DEF table, across
  <2> QED
    BY <2>2, <2>3 DEF Sums
<1>14. across \in [A -> Int]
  BY <1>12
<1>15. table[A] = SumFunction(below[A])
  OBVIOUS
<1> HIDE DEF across, table
<1>16. SumFunction(across) = table[A]
  BY <1>13, <1>14, SumIs
<1> QED
  BY <1>4, <1>5, <1>10, <1>15, <1>16 DEF ByRows, ByColumns

(* The columns of a row in the order of its shares.                        *)
LEMMA BeforeOrders ==
  ASSUME NEW row \in Seq(Nat)
  PROVE  /\ \A i \in DOMAIN row : i \notin Before(row, i)
         /\ \A i, j \in DOMAIN row : j \in Before(row, i) => Before(row, j) \subseteq Before(row, i)
         /\ \A i, j \in DOMAIN row : j \in Before(row, i) \/ i \in Before(row, j) \/ j = i
         /\ \A i \in DOMAIN row : /\ Before(row, i) \in SUBSET DOMAIN row /\ IsFiniteSet(Before(row, i))
                                  /\ Cardinality(Before(row, i)) \in 0 .. Len(row) - 1
         /\ \A i, j \in DOMAIN row : j \in Before(row, i) => Cardinality(Before(row, j)) < Cardinality(Before(row, i))
<1>1. PICK n \in Nat : n = Len(row) /\ DOMAIN row = 1 .. n
  BY LenProperties
<1>2. \A i \in 1 .. n : row[i] \in Nat
  BY <1>1, ElementOfSeq
<1>3. \A i \in 1 .. n : i \notin Before(row, i)
  BY <1>1, <1>2 DEF Before
<1>4. ASSUME NEW i \in 1 .. n, NEW j \in 1 .. n, j \in Before(row, i) PROVE Before(row, j) \subseteq Before(row, i)
  BY <1>1, <1>2, <1>4 DEF Before
<1>5. \A i, j \in 1 .. n : j \in Before(row, i) \/ i \in Before(row, j) \/ j = i
  BY <1>1, <1>2 DEF Before
<1>6. IsFiniteSet(1 .. n) /\ Cardinality(1 .. n) = n
  BY FS_Interval
<1>7. \A i \in 1 .. n : Before(row, i) \in SUBSET (1 .. n)
  BY <1>1 DEF Before
<1>8. ASSUME NEW i \in 1 .. n PROVE IsFiniteSet(Before(row, i)) /\ Cardinality(Before(row, i)) \in 0 .. n - 1
  <2>1. /\ IsFiniteSet(Before(row, i)) /\ Cardinality(Before(row, i)) <= Cardinality(1 .. n)
        /\ Cardinality(1 .. n) = Cardinality(Before(row, i)) => 1 .. n = Before(row, i)
    BY <1>6, <1>7, FS_Subset
  <2>2. Cardinality(Before(row, i)) \in Nat
    BY <2>1, FS_CardinalityType
  <2> QED
    BY <1>3, <1>6, <2>1, <2>2
<1>9. ASSUME NEW i \in 1 .. n, NEW j \in 1 .. n, j \in Before(row, i)
      PROVE  Cardinality(Before(row, j)) < Cardinality(Before(row, i))
  <2>1. Before(row, j) \in SUBSET Before(row, i) /\ Before(row, j) # Before(row, i)
    BY <1>3, <1>4, <1>9
  <2>2. /\ Cardinality(Before(row, j)) <= Cardinality(Before(row, i))
        /\ Cardinality(Before(row, i)) = Cardinality(Before(row, j)) => Before(row, i) = Before(row, j)
    BY <1>8, <2>1, FS_Subset
  <2> QED
    BY <1>8, <2>1, <2>2
<1> QED
  BY <1>1, <1>3, <1>4, <1>5, <1>7, <1>8, <1>9

(* There are k columns among the first k.                                  *)
LEMMA TopCounts ==
  ASSUME NEW row \in Seq(Nat), NEW k \in 0 .. Len(row)
  PROVE  TopK(row, k) \in SUBSET DOMAIN row /\ Cardinality(TopK(row, k)) = k
<1>1. PICK n \in Nat : n = Len(row) /\ DOMAIN row = 1 .. n
  BY LenProperties
<1>2. PICK C : C = DOMAIN row
  OBVIOUS
<1>3. PICK below : below = [i \in C |-> Before(row, i)]
  OBVIOUS
<1>4. IsFiniteSet(C) /\ Cardinality(C) = n
  <2>1. IsFiniteSet(1 .. n) /\ Cardinality(1 .. n) = n
    BY FS_Interval
  <2> QED
    BY <1>1, <1>2, <2>1
<1>5. below \in [C -> SUBSET C]
  BY <1>2, <1>3, BeforeOrders
<1>6. /\ \A i \in C : i \notin below[i]
      /\ \A j, i \in C : j \in below[i] => below[j] \subseteq below[i]
      /\ \A j, i \in C : j \in below[i] \/ i \in below[j] \/ j = i
  BY <1>2, <1>3, BeforeOrders
<1>7. k \in 0 .. Cardinality(C)
  BY <1>1, <1>4
<1>8. Cardinality({i \in C : Cardinality(below[i]) < k}) = k
  BY <1>4, <1>5, <1>6, <1>7, Ranks
<1>9. TopK(row, k) = {i \in C : Cardinality(below[i]) < k}
  BY <1>2, <1>3 DEF TopK
<1> QED
  BY <1>2, <1>8, <1>9

(* What a part of the columns has of the shares of a row.                  *)
ShareOf(row, A) == SumFunction([i \in DOMAIN row |-> IF i \in A THEN row[i] ELSE 0])

(* No k columns have more than the first k.                                *)
LEMMA TopHeaviest ==
  ASSUME NEW row \in Seq(Nat), NEW k \in 0 .. Len(row), NEW A \in SUBSET DOMAIN row, Cardinality(A) = k
  PROVE  ShareOf(row, A) <= ShareOf(row, TopK(row, k))
<1>1. PICK n \in Nat : n = Len(row) /\ DOMAIN row = 1 .. n
  BY LenProperties
<1>2. PICK top, C : top = TopK(row, k) /\ C = 1 .. n
  OBVIOUS
<1>3. top \in SUBSET C /\ Cardinality(top) = k /\ IsFiniteSet(C) /\ A \in SUBSET C /\ k \in Int
  <2>1. IsFiniteSet(1 .. n)
    BY FS_Interval
  <2>2. TopK(row, k) \in SUBSET DOMAIN row /\ Cardinality(TopK(row, k)) = k
    BY TopCounts
  <2> QED
    BY <1>1, <1>2, <2>1, <2>2
<1>4. \A i \in C : row[i] \in Nat
  BY <1>1, <1>2, ElementOfSeq
<1>5. ASSUME NEW i \in top, NEW j \in C \ top PROVE row[j] <= row[i]
  <2>1. /\ Cardinality(Before(row, i)) < k /\ ~ (Cardinality(Before(row, j)) < k)
        /\ Cardinality(Before(row, i)) \in Nat /\ Cardinality(Before(row, j)) \in Nat
    BY <1>1, <1>2, <1>3, BeforeOrders DEF TopK
  <2>2. j \notin Before(row, i)
    <3>1. j \in Before(row, i) => Cardinality(Before(row, j)) < Cardinality(Before(row, i))
      BY <1>1, <1>2, <1>3, BeforeOrders
    <3> QED
      BY <1>3, <2>1, <3>1
  <2>3. ~ (row[j] > row[i])
    BY <1>1, <1>2, <1>3, <2>2 DEF Before
  <2> QED
    BY <1>3, <1>4, <2>3
<1>6. \E least \in Nat : (\A i \in top : least <= row[i]) /\ (top # {} => \A j \in C \ top : row[j] <= least)
  <2>1. CASE top = {}
    BY <2>1
  <2>2. CASE top # {}
    <3> DEFINE E == {row[i] : i \in top}
    <3>1. E \in SUBSET Nat /\ E # {}
      BY <1>3, <1>4, <2>2
    <3>2. PICK e \in E : \A x \in E : e <= x
      <4> HIDE DEF E
      <4> QED
        BY <3>1, LeastNatural
    <3>3. PICK i \in top : e = row[i]
      OBVIOUS
    <3> QED
      BY <1>3, <1>4, <1>5, <3>2, <3>3
  <2> QED
    BY <2>1, <2>2
<1>7. PICK least \in Nat : (\A i \in top : least <= row[i]) /\ (top # {} => \A j \in C \ top : row[j] <= least)
  BY <1>6
<1>8. top = {} => A = {}
  <2>1. IsFiniteSet(A)
    BY <1>3, FS_Subset
  <2> QED
    BY <1>3, <2>1, FS_EmptySet
<1>9. PICK a, t, la, lt : /\ a = [i \in C |-> IF i \in A THEN row[i] ELSE 0] /\ t = [i \in C |-> IF i \in top THEN row[i] ELSE 0]
                          /\ la = [i \in C |-> IF i \in A THEN least ELSE 0] /\ lt = [i \in C |-> IF i \in top THEN least ELSE 0]
  OBVIOUS
<1>10. a \in [C -> Int] /\ t \in [C -> Int] /\ la \in [C -> Int] /\ lt \in [C -> Int]
  BY <1>4, <1>9
<1>11. PICK l, r : l = [i \in C |-> a[i] + lt[i]] /\ r = [i \in C |-> t[i] + la[i]]
  OBVIOUS
<1>12. l \in [C -> Int] /\ r \in [C -> Int]
  BY <1>10, <1>11
<1>13. \A i \in C : l[i] <= r[i]
  <2> TAKE i \in C
  <2>1. row[i] \in Nat /\ (i \in top => least <= row[i]) /\ (i \in A => (i \notin top => row[i] <= least))
    BY <1>4, <1>7, <1>8
  <2>2. l[i] = (IF i \in A THEN row[i] ELSE 0) + (IF i \in top THEN least ELSE 0)
    BY <1>9, <1>11
  <2>3. r[i] = (IF i \in top THEN row[i] ELSE 0) + (IF i \in A THEN least ELSE 0)
    BY <1>9, <1>11
  <2> QED
    BY <2>1, <2>2, <2>3
<1>14. SumFunction(l) <= SumFunction(r)
  BY <1>3, <1>12, <1>13, SumGrows
<1>15. SumFunction(l) = SumFunction(a) + SumFunction(lt) /\ SumFunction(r) = SumFunction(t) + SumFunction(la)
  <2>1. SumFunction([i \in C |-> a[i] + lt[i]]) = SumFunction(a) + SumFunction(lt)
    BY <1>3, <1>10, SumAdds
  <2>2. SumFunction([i \in C |-> t[i] + la[i]]) = SumFunction(t) + SumFunction(la)
    BY <1>3, <1>10, SumAdds
  <2> QED
    BY <1>11, <2>1, <2>2
<1>16. SumFunction(lt) = least * k /\ SumFunction(la) = least * k
  <2>1. \A c \in Int, B \in SUBSET C : SumFunction([i \in C |-> IF i \in B THEN c ELSE 0]) = c * Cardinality(B)
    BY <1>3, SumOfConstant
  <2>2. least \in Int
    OBVIOUS
  <2> QED
    BY <1>3, <1>9, <2>1, <2>2
<1>17. SumFunction(a) \in Int /\ SumFunction(t) \in Int /\ SumFunction(la) \in Int
  BY <1>3, <1>10, SumHasTable
<1>18. SumFunction(a) <= SumFunction(t)
  BY <1>14, <1>15, <1>16, <1>17
<1>19. ShareOf(row, A) = SumFunction(a) /\ ShareOf(row, top) = SumFunction(t)
  BY <1>1, <1>2, <1>9 DEF ShareOf
<1> QED
  BY <1>2, <1>18, <1>19

(* A row put in order: the same shares, the largest first.                 *)
LEMMA RankedRow ==
  ASSUME NEW row \in Seq(Nat), NEW k \in 0 .. Len(row)
  PROVE  /\ Ranked(row) \in Seq(Nat) /\ Len(Ranked(row)) = Len(row)
         /\ TopK(Ranked(row), k) = 1 .. k
         /\ ShareOf(Ranked(row), 1 .. k) = ShareOf(row, TopK(row, k))
<1>1. PICK n \in Nat : n = Len(row) /\ DOMAIN row = 1 .. n
  BY LenProperties
<1>2. PICK rank : rank = [i \in 1 .. n |-> Cardinality(Before(row, i))]
  OBVIOUS
<1>3. rank \in [1 .. n -> 0 .. n - 1]
  BY <1>1, <1>2, BeforeOrders
<1>4. \A i, j \in 1 .. n : (j \in Before(row, i) => rank[j] < rank[i]) /\ (rank[i] = rank[j] => i = j)
  <2>1. \A i, j \in 1 .. n : j \in Before(row, i) => rank[j] < rank[i]
    BY <1>1, <1>2, BeforeOrders
  <2>2. \A i, j \in 1 .. n : j \in Before(row, i) \/ i \in Before(row, j) \/ j = i
    BY <1>1, BeforeOrders
  <2> QED
    BY <1>3, <2>1, <2>2
<1>5. ASSUME NEW m \in 1 .. n PROVE \E i \in 1 .. n : rank[i] = m - 1
  <2>1. m \in 0 .. Len(row) /\ m - 1 \in 0 .. Len(row)
    BY <1>1
  <2>2. Cardinality(TopK(row, m)) = m /\ Cardinality(TopK(row, m - 1)) = m - 1
    BY <2>1, TopCounts
  <2>3. TopK(row, m) = {i \in 1 .. n : rank[i] < m} /\ TopK(row, m - 1) = {i \in 1 .. n : rank[i] < m - 1}
    BY <1>1, <1>2 DEF TopK
  <2>4. {i \in 1 .. n : rank[i] < m} # {i \in 1 .. n : rank[i] < m - 1}
    <3>1. m # m - 1
      OBVIOUS
    <3> QED
      BY <2>2, <2>3, <3>1
  <2>5. PICK i \in 1 .. n : rank[i] < m /\ ~ (rank[i] < m - 1)
    BY <1>3, <2>4
  <2> QED
    BY <1>3, <2>5
<1>6. PICK b : b = [m \in DOMAIN row |-> CHOOSE i \in DOMAIN row : Cardinality(Before(row, i)) = m - 1]
  OBVIOUS
<1>7. b \in [1 .. n -> 1 .. n] /\ \A m \in 1 .. n : rank[b[m]] = m - 1
  <2>1. \A m \in 1 .. n : \E i \in 1 .. n : Cardinality(Before(row, i)) = m - 1
    BY <1>2, <1>5
  <2>2. \A m \in 1 .. n : b[m] \in 1 .. n /\ Cardinality(Before(row, b[m])) = m - 1
    BY <1>1, <1>6, <2>1
  <2> QED
    BY <1>1, <1>2, <1>6, <2>2
<1>8. /\ \A x, y \in 1 .. n : b[x] = b[y] => x = y
      /\ \A z \in 1 .. n : \E x \in 1 .. n : b[x] = z
  <2>1. \A x, y \in 1 .. n : b[x] = b[y] => x = y
    <3> SUFFICES ASSUME NEW x \in 1 .. n, NEW y \in 1 .. n, b[x] = b[y] PROVE x = y
      OBVIOUS
    <3>1. x - 1 = y - 1
      BY <1>7
    <3> QED
      BY <3>1
  <2>2. \A z \in 1 .. n : \E x \in 1 .. n : b[x] = z
    <3> TAKE z \in 1 .. n
    <3>1. PICK x \in 1 .. n : x - 1 = rank[z]
      <4>1. rank[z] + 1 \in 1 .. n /\ (rank[z] + 1) - 1 = rank[z]
        BY <1>3
      <4> QED
        BY <4>1
    <3>2. b[x] \in 1 .. n /\ rank[b[x]] = rank[z]
      BY <1>7, <3>1
    <3> QED
      BY <1>4, <3>2
  <2> QED
    BY <2>1, <2>2
<1>9. PICK ranked : ranked = Ranked(row)
  OBVIOUS
<1>10. ranked = [m \in 1 .. n |-> row[b[m]]]
  <2>1. ranked = [m \in DOMAIN row |-> row[b[m]]]
    BY <1>6, <1>9 DEF Ranked
  <2> QED
    BY <1>1, <2>1
<1>11. \A i \in 1 .. n : row[i] \in Nat
  BY <1>1, ElementOfSeq
<1>12. ranked \in Seq(Nat) /\ Len(ranked) = n /\ DOMAIN ranked = 1 .. n /\ \A m \in 1 .. n : ranked[m] \in Nat
  <2>1. ranked \in [1 .. n -> Nat]
    BY <1>7, <1>10, <1>11
  <2> QED
    BY <2>1, IsASeq, LenProperties
<1>13. \A l, m \in 1 .. n : l < m => ranked[m] <= ranked[l]
  <2> SUFFICES ASSUME NEW l \in 1 .. n, NEW m \in 1 .. n, l < m PROVE ranked[m] <= ranked[l]
    OBVIOUS
  <2>1. PICK x \in 1 .. n, y \in 1 .. n : x = b[m] /\ y = b[l]
    BY <1>7
  <2>2. rank[x] = m - 1 /\ rank[y] = l - 1 /\ ranked[m] = row[x] /\ ranked[l] = row[y]
    BY <1>7, <1>10, <2>1
  <2>3. x \notin Before(row, y)
    <3>1. ~ (rank[x] < rank[y])
      BY <2>2
    <3> QED
      BY <1>4, <3>1
  <2>4. ~ (row[x] > row[y])
    BY <1>1, <2>3 DEF Before
  <2> QED
    BY <1>11, <2>2, <2>4
<1>14. ASSUME NEW i \in 1 .. n PROVE Cardinality(Before(ranked, i)) = i - 1
  <2>1. \A j \in 1 .. n : (ranked[j] > ranked[i] \/ (ranked[j] = ranked[i] /\ j < i)) <=> j < i
    <3> TAKE j \in 1 .. n
    <3>1. (j < i => ranked[i] <= ranked[j]) /\ (i < j => ranked[j] <= ranked[i]) /\ ranked[i] \in Nat /\ ranked[j] \in Nat
      BY <1>12, <1>13
    <3> QED
      BY <3>1
  <2>2. Before(ranked, i) = {j \in 1 .. n : j < i}
    BY <1>12, <2>1 DEF Before
  <2>3. {j \in 1 .. n : j < i} = 1 .. i - 1
    OBVIOUS
  <2>4. Cardinality(1 .. i - 1) = i - 1
    BY FS_Interval
  <2> QED
    BY <2>2, <2>3, <2>4
<1>15. TopK(ranked, k) = 1 .. k
  <2>1. TopK(ranked, k) = {i \in 1 .. n : Cardinality(Before(ranked, i)) < k}
    BY <1>12 DEF TopK
  <2>2. \A i \in 1 .. n : Cardinality(Before(ranked, i)) < k <=> i \in 1 .. k
    BY <1>1, <1>14
  <2>3. \A i \in 1 .. k : i \in 1 .. n
    BY <1>1
  <2> QED
    BY <2>1, <2>2, <2>3
<1>16. PICK top : top = TopK(row, k)
  OBVIOUS
<1>17. PICK f : f = [i \in 1 .. n |-> IF i \in top THEN row[i] ELSE 0]
  OBVIOUS
<1>18. \A m \in 1 .. n : b[m] \in top <=> m \in 1 .. k
  <2> TAKE m \in 1 .. n
  <2>1. b[m] \in top <=> m - 1 < k
    BY <1>1, <1>2, <1>7, <1>16 DEF TopK
  <2> QED
    BY <1>1, <2>1
<1>19. \A m \in 1 .. n : f[b[m]] = IF m \in 1 .. k THEN ranked[m] ELSE 0
  BY <1>7, <1>10, <1>17, <1>18
<1>20. ShareOf(ranked, 1 .. k) = SumFunction([m \in 1 .. n |-> f[b[m]]])
  <2>1. [m \in 1 .. n |-> f[b[m]]] = [m \in DOMAIN ranked |-> IF m \in 1 .. k THEN ranked[m] ELSE 0]
    BY <1>12, <1>19
  <2> QED
    BY <2>1 DEF ShareOf
<1>21. SumFunction([m \in 1 .. n |-> f[b[m]]]) = SumFunction(f)
  <2>1. PICK C, B : C = 1 .. n /\ B = 1 .. n
    OBVIOUS
  <2>2. IsFiniteSet(C) /\ IsFiniteSet(B)
    <3>1. IsFiniteSet(1 .. n)
      BY FS_Interval
    <3> QED
      BY <2>1, <3>1
  <2>3. b \in [C -> B] /\ f \in [B -> Int]
    <3>1. \A i \in 1 .. n : (IF i \in top THEN row[i] ELSE 0) \in Int
      BY <1>11
    <3>2. f \in [1 .. n -> Int]
      BY <1>17, <3>1
    <3> QED
      BY <1>7, <2>1, <3>2
  <2>4. \A x, y \in C : b[x] = b[y] => x = y
    BY <1>8, <2>1
  <2>5. \A z \in B : \E x \in C : b[x] = z
    BY <1>8, <2>1
  <2>6. SumFunction([m \in C |-> f[b[m]]]) = SumFunction(f)
    BY <2>2, <2>3, <2>4, <2>5, SumRenames
  <2> QED
    BY <2>1, <2>6
<1>22. ShareOf(row, top) = SumFunction(f)
  BY <1>1, <1>17 DEF ShareOf
<1> QED
  BY <1>1, <1>9, <1>12, <1>15, <1>16, <1>20, <1>21, <1>22

(* What the columns are chosen by the tokens T and given by them, times    *)
(* one another; and what each token gives to the columns of each token.    *)
Products(T, C, r, top) ==
  SumFunction([i \in C |-> Cardinality({t \in T : i \in top[t]}) * SumFunction([t \in T |-> r[t][i]])])
SharesOf(T, r, top) == SumFunction([t \in T |-> SumFunction([s \in T |-> ShareOf(r[t], top[s])])])

(* The two are the same: a share counts once for each token that chose it. *)
LEMMA ProductsAsShares ==
  ASSUME NEW T, IsFiniteSet(T), NEW C, IsFiniteSet(C), NEW r \in [T -> [C -> Int]], NEW top \in [T -> SUBSET C]
  PROVE  Products(T, C, r, top) = SharesOf(T, r, top)
<1> DEFINE sent(i) == {t \in T : i \in top[t]}
<1>1. PICK d : d = [i \in C |-> Cardinality(sent(i))]
  OBVIOUS
<1>2. \A i \in C : sent(i) \in SUBSET T /\ IsFiniteSet(sent(i)) /\ d[i] = Cardinality(sent(i)) /\ d[i] \in Int
  <2> TAKE i \in C
  <2>1. sent(i) \in SUBSET T
    OBVIOUS
  <2>2. IsFiniteSet(sent(i)) /\ Cardinality(sent(i)) \in Nat
    BY <2>1, FS_Subset, FS_CardinalityType
  <2> QED
    BY <1>1, <2>1, <2>2
<1>3. PICK g : g = [i \in C |-> [t \in T |-> d[i] * r[t][i]]]
  OBVIOUS
<1>4. \A i \in C, t \in T : r[t][i] \in Int /\ g[i][t] = d[i] * r[t][i] /\ g[i][t] \in Int
  <2> TAKE i \in C, t \in T
  <2>1. r[t][i] \in Int
    OBVIOUS
  <2>2. d[i] * r[t][i] \in Int
    <3>1. PICK x \in Int, y \in Int : x = d[i] /\ y = r[t][i]
      BY <1>2, <2>1
    <3>2. x * y \in Int
      OBVIOUS
    <3> QED
      BY <3>1, <3>2
  <2> QED
    BY <1>3, <2>1, <2>2
<1>5. \A i \in C : d[i] * SumFunction([t \in T |-> r[t][i]]) = SumFunction([t \in T |-> g[i][t]])
  <2> TAKE i \in C
  <2>1. PICK f : f = [t \in T |-> r[t][i]]
    OBVIOUS
  <2>2. f \in [T -> Int] /\ \A t \in T : d[i] * f[t] = g[i][t]
    BY <1>4, <2>1
  <2>3. SumFunction([t \in T |-> d[i] * f[t]]) = d[i] * SumFunction(f)
    BY <1>2, <2>2, SumScales
  <2>4. [t \in T |-> d[i] * f[t]] = [t \in T |-> g[i][t]]
    BY <2>2
  <2> QED
    BY <2>1, <2>3, <2>4
<1>6. SumFunction([i \in C |-> SumFunction([t \in T |-> g[i][t]])]) = SumFunction([t \in T |-> SumFunction([i \in C |-> g[i][t]])])
  <2>1. Numbers(C, T, g)
    BY <1>4 DEF Numbers
  <2>2. ByRows(C, T, g) = ByColumns(C, T, g)
    BY <2>1, SumsSwap
  <2> QED
    BY <2>2 DEF ByRows, ByColumns
<1>7. ASSUME NEW t \in T
      PROVE  SumFunction([i \in C |-> g[i][t]]) = SumFunction([s \in T |-> ShareOf(r[t], top[s])])
  <2>1. PICK e : e = [i \in C |-> [s \in T |-> IF s \in sent(i) THEN r[t][i] ELSE 0]]
    OBVIOUS
  <2>2. \A i \in C, s \in T : e[i][s] = (IF i \in top[s] THEN r[t][i] ELSE 0) /\ e[i][s] \in Int
    <3> TAKE i \in C, s \in T
    <3>1. e[i][s] = IF i \in top[s] THEN r[t][i] ELSE 0
      BY <2>1
    <3>2. r[t][i] \in Int
      BY <1>4
    <3> QED
      BY <3>1, <3>2
  <2>3. \A i \in C : g[i][t] = SumFunction([s \in T |-> e[i][s]])
    <3> TAKE i \in C
    <3>1. PICK c \in Int, A \in SUBSET T : c = r[t][i] /\ A = sent(i)
      BY <1>2, <1>4
    <3>2. SumFunction([s \in T |-> IF s \in A THEN c ELSE 0]) = c * Cardinality(A)
      BY SumOfConstant
    <3>3. [s \in T |-> IF s \in A THEN c ELSE 0] = [s \in T |-> e[i][s]]
      BY <2>1, <3>1
    <3>4. g[i][t] = d[i] * c /\ d[i] = Cardinality(A) /\ d[i] \in Int
      BY <1>2, <1>4, <3>1
    <3>5. PICK m \in Int : m = Cardinality(A)
      BY <3>4
    <3>6. m * c = c * m
      BY <3>5
    <3> QED
      BY <3>2, <3>3, <3>4, <3>5, <3>6
  <2>4. SumFunction([i \in C |-> SumFunction([s \in T |-> e[i][s]])]) = SumFunction([s \in T |-> SumFunction([i \in C |-> e[i][s]])])
    <3>1. Numbers(C, T, e)
      BY <2>2 DEF Numbers
    <3>2. ByRows(C, T, e) = ByColumns(C, T, e)
      BY <3>1, SumsSwap
    <3> QED
      BY <3>2 DEF ByRows, ByColumns
  <2>5. \A s \in T : SumFunction([i \in C |-> e[i][s]]) = ShareOf(r[t], top[s])
    <3> TAKE s \in T
    <3>1. [i \in C |-> e[i][s]] = [i \in DOMAIN r[t] |-> IF i \in top[s] THEN r[t][i] ELSE 0]
      BY <2>2
    <3> QED
      BY <3>1 DEF ShareOf
  <2>6. [i \in C |-> g[i][t]] = [i \in C |-> SumFunction([s \in T |-> e[i][s]])]
    BY <2>3
  <2>7. [s \in T |-> SumFunction([i \in C |-> e[i][s]])] = [s \in T |-> ShareOf(r[t], top[s])]
    BY <2>5
  <2> QED
    BY <2>4, <2>6, <2>7
<1>8. [t \in T |-> SumFunction([i \in C |-> g[i][t]])] = [t \in T |-> SumFunction([s \in T |-> ShareOf(r[t], top[s])])]
  BY <1>7
<1>9. [i \in C |-> Cardinality(sent(i)) * SumFunction([t \in T |-> r[t][i]])] = [i \in C |-> SumFunction([t \in T |-> g[i][t]])]
  BY <1>2, <1>5
<1>10. Products(T, C, r, top) = SumFunction([i \in C |-> SumFunction([t \in T |-> g[i][t]])])
  BY <1>9 DEF Products
<1>11. SharesOf(T, r, top) = SumFunction([t \in T |-> SumFunction([i \in C |-> g[i][t]])])
  BY <1>8 DEF SharesOf
<1> QED
  BY <1>6, <1>10, <1>11

(* A layer of tok tokens and n columns.                                    *)
Logits(layer, tok, n) ==
  /\ tok \in Nat /\ n \in Nat /\ tok > 0 /\ n > 0
  /\ layer.rows \in Seq(Seq(Nat)) /\ Len(layer.rows) = tok
  /\ \A t \in 1 .. tok : Len(layer.rows[t]) = n

(* What such a layer is, in the parts the proofs need.                     *)
LEMMA LogitsTell ==
  ASSUME NEW layer, NEW tok, NEW n, Logits(layer, tok, n)
  PROVE  /\ tok \in Nat /\ n \in Nat /\ tok > 0 /\ n > 0
         /\ DOMAIN layer.rows = 1 .. tok /\ TokenCount(layer) = tok /\ Width(layer) = n
         /\ \A t \in 1 .. tok : /\ layer.rows[t] \in Seq(Nat) /\ Len(layer.rows[t]) = n
                                /\ DOMAIN layer.rows[t] = 1 .. n /\ layer.rows[t] \in [1 .. n -> Nat]
         /\ IsFiniteSet(1 .. tok) /\ Cardinality(1 .. tok) = tok /\ IsFiniteSet(1 .. n) /\ Cardinality(1 .. n) = n
<1>1. /\ tok \in Nat /\ n \in Nat /\ tok > 0 /\ n > 0
      /\ layer.rows \in Seq(Seq(Nat)) /\ Len(layer.rows) = tok
      /\ \A t \in 1 .. tok : Len(layer.rows[t]) = n
  BY DEF Logits
<1>2. DOMAIN layer.rows = 1 .. tok /\ \A t \in 1 .. tok : layer.rows[t] \in Seq(Nat)
  BY <1>1, LenProperties, ElementOfSeq
<1>3. TokenCount(layer) = tok /\ Width(layer) = n
  BY <1>1 DEF TokenCount, Width
<1>4. ASSUME NEW t \in 1 .. tok PROVE DOMAIN layer.rows[t] = 1 .. n /\ layer.rows[t] \in [1 .. n -> Nat]
  <2>1. layer.rows[t] \in Seq(Nat) /\ Len(layer.rows[t]) = n
    BY <1>1, <1>2
  <2> QED
    BY <2>1, LenProperties
<1>5. IsFiniteSet(1 .. tok) /\ Cardinality(1 .. tok) = tok
  BY <1>1, FS_Interval
<1>6. IsFiniteSet(1 .. n) /\ Cardinality(1 .. n) = n
  BY <1>1, FS_Interval
<1> QED
  BY <1>1, <1>2, <1>3, <1>4, <1>5, <1>6

(* Between one and all columns are chosen.                                 *)
LEMMA ChosenType ==
  ASSUME NEW p, p.perToken \in Nat, NEW n \in Nat, n > 0
  PROVE  Chosen(p, n) \in 1 .. n
BY DEF Chosen

(* The loss of a layer that has all columns.                               *)
LEMMA LossAsShares ==
  ASSUME NEW layer, NEW tok, NEW n, Logits(layer, tok, n), NEW p, p.perToken \in Nat, Kind(n, p) = "full"
  PROVE  LayerLoss(layer, p) =
           n * SumFunction([t \in 1 .. tok |-> SumFunction([s \in 1 .. tok |->
                 ShareOf(layer.rows[t], TopK(layer.rows[s], Chosen(p, n)))])])
<1>1. /\ tok \in Nat /\ n \in Nat /\ tok > 0 /\ n > 0
      /\ DOMAIN layer.rows = 1 .. tok /\ TokenCount(layer) = tok /\ Width(layer) = n
      /\ \A t \in 1 .. tok : /\ layer.rows[t] \in Seq(Nat) /\ Len(layer.rows[t]) = n
                             /\ DOMAIN layer.rows[t] = 1 .. n /\ layer.rows[t] \in [1 .. n -> Nat]
      /\ IsFiniteSet(1 .. tok) /\ IsFiniteSet(1 .. n)
  BY LogitsTell
<1>2. Chosen(p, n) \in 1 .. n
  BY <1>1, ChosenType
<1>3. PICK T, C, r, top : /\ T = 1 .. tok /\ C = 1 .. n /\ r = layer.rows
                          /\ top = [t \in 1 .. tok |-> TopK(layer.rows[t], Chosen(p, n))]
  OBVIOUS
<1>4. IsFiniteSet(T) /\ IsFiniteSet(C)
  BY <1>1, <1>3
<1>5. r \in [T -> [C -> Int]]
  <2>1. \A t \in T : r[t] \in [C -> Int]
    BY <1>1, <1>3
  <2>2. r = [t \in T |-> r[t]]
    <3>1. PICK S : S = Seq(Nat)
      OBVIOUS
    <3>2. layer.rows \in Seq(S)
      BY <3>1 DEF Logits
    <3>3. layer.rows \in [1 .. Len(layer.rows) -> S]
      BY <3>2, LenProperties
    <3> QED
      BY <1>1, <1>3, <3>3
  <2> QED
    BY <2>1, <2>2
<1>6. top \in [T -> SUBSET C]
  <2>1. \A t \in 1 .. tok : TopK(layer.rows[t], Chosen(p, n)) \in SUBSET (1 .. n)
    BY <1>1 DEF TopK
  <2> QED
    BY <1>3, <2>1
<1>7. Products(T, C, r, top) = SharesOf(T, r, top)
  BY <1>4, <1>5, <1>6, ProductsAsShares
<1>8. \A i \in C : Dispatched(layer, p)[i] = Cardinality({t \in T : i \in top[t]})
  <2> TAKE i \in C
  <2>1. Dispatched(layer, p)[i] = Cardinality({t \in T : i \in TopK(layer.rows[t], Chosen(p, n))})
    BY <1>1, <1>3 DEF Dispatched
  <2>2. {t \in T : i \in TopK(layer.rows[t], Chosen(p, n))} = {t \in T : i \in top[t]}
    BY <1>3
  <2> QED
    BY <2>1, <2>2
<1>9. \A i \in C : Mass(layer)[i] = SumFunction([t \in T |-> r[t][i]])
  BY <1>1, <1>3 DEF Mass
<1>10. [i \in 1 .. n |-> Dispatched(layer, p)[i] * Mass(layer)[i]] =
         [i \in C |-> Cardinality({t \in T : i \in top[t]}) * SumFunction([t \in T |-> r[t][i]])]
  BY <1>3, <1>8, <1>9
<1>11. LayerLoss(layer, p) = n * SumFunction([i \in 1 .. n |-> Dispatched(layer, p)[i] * Mass(layer)[i]])
  BY <1>1 DEF LayerLoss
<1>12. \A t \in 1 .. tok : SumFunction([s \in T |-> ShareOf(r[t], top[s])]) =
         SumFunction([s \in 1 .. tok |-> ShareOf(layer.rows[t], TopK(layer.rows[s], Chosen(p, n)))])
  <2> TAKE t \in 1 .. tok
  <2>1. [s \in T |-> ShareOf(r[t], top[s])] = [s \in 1 .. tok |-> ShareOf(layer.rows[t], TopK(layer.rows[s], Chosen(p, n)))]
    BY <1>3
  <2> QED
    BY <2>1
<1>13. [t \in T |-> SumFunction([s \in T |-> ShareOf(r[t], top[s])])] =
         [t \in 1 .. tok |-> SumFunction([s \in 1 .. tok |-> ShareOf(layer.rows[t], TopK(layer.rows[s], Chosen(p, n)))])]
  BY <1>3, <1>12
<1>14. LayerLoss(layer, p) = n * Products(T, C, r, top)
  BY <1>10, <1>11 DEF Products
<1>15. SharesOf(T, r, top) = SumFunction([t \in 1 .. tok |-> SumFunction([s \in 1 .. tok |->
                               ShareOf(layer.rows[t], TopK(layer.rows[s], Chosen(p, n)))])])
  BY <1>13 DEF SharesOf
<1> QED
  BY <1>7, <1>14, <1>15

(* A share is a number.                                                    *)
LEMMA ShareType ==
  ASSUME NEW C, IsFiniteSet(C), NEW row \in [C -> Nat], NEW A
  PROVE  ShareOf(row, A) \in Nat
<1>1. PICK f : f = [i \in C |-> IF i \in A THEN row[i] ELSE 0]
  OBVIOUS
<1>2. \A i \in C : f[i] \in Nat
  BY <1>1
<1>3. f \in [C -> Nat]
  BY <1>1, <1>2
<1>4. SumFunction(f) \in Nat
  BY <1>3, SumOfNaturals
<1> QED
  BY <1>1, <1>4 DEF ShareOf

(* All tokens at the same experts, with the same confidences, is dearest.  *)
LEMMA CollapseIsDearest ==
  ASSUME NEW layer, NEW tok, NEW n, Logits(layer, tok, n), NEW p, p.perToken \in Nat, Kind(n, p) = "full",
         layer = [form |-> layer.form, rows |-> layer.rows]
  PROVE  LayerLoss(layer, p) <= LayerLoss(Collapsed(layer), p)
<1>1. /\ tok \in Nat /\ n \in Nat /\ tok > 0 /\ n > 0
      /\ DOMAIN layer.rows = 1 .. tok
      /\ \A t \in 1 .. tok : /\ layer.rows[t] \in Seq(Nat) /\ Len(layer.rows[t]) = n
                             /\ DOMAIN layer.rows[t] = 1 .. n /\ layer.rows[t] \in [1 .. n -> Nat]
      /\ IsFiniteSet(1 .. tok) /\ IsFiniteSet(1 .. n)
  BY LogitsTell
<1>2. PICK k \in 1 .. n : k = Chosen(p, n)
  BY <1>1, ChosenType
<1>3. PICK other : other = Collapsed(layer)
  OBVIOUS
<1>4. other.rows = [t \in 1 .. tok |-> Ranked(layer.rows[t])]
  <2>1. layer.rows = layer.rows /\ "rows" \in DOMAIN layer
    OBVIOUS
  <2> QED
    BY <1>1, <1>3, <2>1 DEF Collapsed
<1>5. \A t \in 1 .. tok : /\ other.rows[t] \in Seq(Nat) /\ Len(other.rows[t]) = n
                          /\ TopK(other.rows[t], k) = 1 .. k
                          /\ ShareOf(other.rows[t], 1 .. k) = ShareOf(layer.rows[t], TopK(layer.rows[t], k))
  <2> TAKE t \in 1 .. tok
  <2>1. PICK row \in Seq(Nat) : row = layer.rows[t] /\ Len(row) = n
    BY <1>1
  <2>2. k \in 0 .. Len(row)
    BY <1>1, <2>1
  <2>3. /\ Ranked(row) \in Seq(Nat) /\ Len(Ranked(row)) = Len(row)
        /\ TopK(Ranked(row), k) = 1 .. k
        /\ ShareOf(Ranked(row), 1 .. k) = ShareOf(row, TopK(row, k))
    BY <2>2, RankedRow
  <2> QED
    BY <1>4, <2>1, <2>3
<1>6. Logits(other, tok, n)
  <2>1. other.rows \in [1 .. tok -> Seq(Nat)]
    BY <1>4, <1>5
  <2>2. other.rows \in Seq(Seq(Nat)) /\ Len(other.rows) = tok
    <3>1. PICK S : S = Seq(Nat)
      OBVIOUS
    <3>2. other.rows \in [1 .. tok -> S] /\ tok \in Nat
      BY <1>1, <2>1, <3>1
    <3>3. other.rows \in Seq(S)
      BY <3>2, SeqDef
    <3> QED
      BY <3>1, <3>2, <3>3, LenProperties
  <2> QED
    BY <1>1, <1>5, <2>2 DEF Logits
<1>7. PICK mine, theirs : /\ mine = [t \in 1 .. tok |-> [s \in 1 .. tok |-> ShareOf(layer.rows[t], TopK(layer.rows[s], k))]]
                          /\ theirs = [t \in 1 .. tok |-> [s \in 1 .. tok |-> ShareOf(other.rows[t], TopK(other.rows[s], k))]]
  OBVIOUS
<1>8. ASSUME NEW t \in 1 .. tok, NEW s \in 1 .. tok
      PROVE  mine[t][s] \in Int /\ theirs[t][s] \in Int /\ mine[t][s] <= theirs[t][s]
  <2>1. PICK row \in Seq(Nat), A \in SUBSET (1 .. n) :
          /\ row = layer.rows[t] /\ Len(row) = n /\ DOMAIN row = 1 .. n /\ row \in [1 .. n -> Nat]
          /\ A = TopK(layer.rows[s], k) /\ Cardinality(A) = k
    <3>1. PICK line \in Seq(Nat) : line = layer.rows[s] /\ Len(line) = n /\ DOMAIN line = 1 .. n
      BY <1>1
    <3>2. k \in 0 .. Len(line)
      BY <1>1, <3>1
    <3>3. TopK(line, k) \in SUBSET DOMAIN line /\ Cardinality(TopK(line, k)) = k
      BY <3>2, TopCounts
    <3> QED
      BY <1>1, <3>1, <3>3
  <2>2. k \in 0 .. Len(row) /\ A \in SUBSET DOMAIN row
    BY <1>1, <2>1
  <2>3. ShareOf(row, A) <= ShareOf(row, TopK(row, k))
    BY <2>1, <2>2, TopHeaviest
  <2>4. ShareOf(row, A) \in Nat /\ ShareOf(row, TopK(row, k)) \in Nat
    BY <1>1, <2>1, ShareType
  <2>5. mine[t][s] = ShareOf(row, A) /\ theirs[t][s] = ShareOf(row, TopK(row, k))
    BY <1>5, <1>7, <2>1
  <2> QED
    BY <2>3, <2>4, <2>5
<1>9. PICK f, g : f = [t \in 1 .. tok |-> SumFunction(mine[t])] /\ g = [t \in 1 .. tok |-> SumFunction(theirs[t])]
  OBVIOUS
<1>10. ASSUME NEW t \in 1 .. tok PROVE f[t] \in Int /\ g[t] \in Int /\ f[t] <= g[t]
  <2>1. PICK T, x, y : T = 1 .. tok /\ x = mine[t] /\ y = theirs[t]
    OBVIOUS
  <2>2. IsFiniteSet(T) /\ x \in [T -> Int] /\ y \in [T -> Int] /\ \A s \in T : x[s] <= y[s]
    BY <1>1, <1>7, <1>8, <2>1
  <2>3. SumFunction(x) \in Int /\ SumFunction(y) \in Int
    BY <2>2, SumHasTable
  <2>4. SumFunction(x) <= SumFunction(y)
    BY <2>2, SumGrows
  <2> QED
    BY <1>9, <2>1, <2>3, <2>4
<1>11. SumFunction(f) \in Int /\ SumFunction(g) \in Int /\ SumFunction(f) <= SumFunction(g)
  <2>1. PICK T : T = 1 .. tok
    OBVIOUS
  <2>2. IsFiniteSet(T) /\ f \in [T -> Int] /\ g \in [T -> Int] /\ \A s \in T : f[s] <= g[s]
    BY <1>1, <1>9, <1>10, <2>1
  <2> QED
    BY <2>2, SumHasTable, SumGrows
<1>12. LayerLoss(layer, p) = n * SumFunction(f)
  <2>1. f = [t \in 1 .. tok |-> SumFunction([s \in 1 .. tok |-> ShareOf(layer.rows[t], TopK(layer.rows[s], Chosen(p, n)))])]
    BY <1>2, <1>7, <1>9
  <2> QED
    BY <2>1, LossAsShares
<1>13. LayerLoss(other, p) = n * SumFunction(g)
  <2>1. g = [t \in 1 .. tok |-> SumFunction([s \in 1 .. tok |-> ShareOf(other.rows[t], TopK(other.rows[s], Chosen(p, n)))])]
    BY <1>2, <1>7, <1>9
  <2> QED
    BY <1>6, <2>1, LossAsShares
<1>14. \A a, b \in Int : a <= b => n * a <= n * b
  <2> SUFFICES ASSUME NEW a \in Int, NEW b \in Int, a <= b PROVE n * a <= n * b
    OBVIOUS
  <2>1. PICK c \in Nat : b = a + c
    <3>1. b - a \in Nat /\ b = a + (b - a)
      OBVIOUS
    <3> QED
      BY <3>1
  <2>2. n * (a + c) = n * a + n * c /\ n * c \in Nat /\ n * a \in Int
    BY <1>1
  <2> QED
    BY <2>1, <2>2
<1> QED
  BY <1>3, <1>11, <1>12, <1>13, <1>14

(* A router that is even costs the number of experts per token.            *)
LEMMA EvenCosts ==
  ASSUME NEW layer, NEW tok, NEW n, Logits(layer, tok, n), NEW p, p.perToken \in Nat, Kind(n, p) = "full",
         Scale \in Nat, \A t \in 1 .. tok : SumFunction(layer.rows[t]) = Scale,
         \A t \in 1 .. tok : \A i, j \in 1 .. n : layer.rows[t][i] = layer.rows[t][j]
  PROVE  LayerLoss(layer, p) = Chosen(p, n) * Scale * tok * tok
<1>1. /\ tok \in Nat /\ n \in Nat /\ tok > 0 /\ n > 0
      /\ \A t \in 1 .. tok : /\ layer.rows[t] \in Seq(Nat) /\ Len(layer.rows[t]) = n
                             /\ DOMAIN layer.rows[t] = 1 .. n /\ layer.rows[t] \in [1 .. n -> Nat]
      /\ IsFiniteSet(1 .. tok) /\ Cardinality(1 .. tok) = tok /\ IsFiniteSet(1 .. n) /\ Cardinality(1 .. n) = n
  BY LogitsTell
<1>2. PICK k \in 1 .. n : k = Chosen(p, n)
  BY <1>1, ChosenType
<1>3. PICK v : v = [t \in 1 .. tok |-> layer.rows[t][1]]
  OBVIOUS
<1>4. ASSUME NEW t \in 1 .. tok
      PROVE  v[t] \in Nat /\ v[t] * n = Scale /\ \A i \in 1 .. n : layer.rows[t][i] = v[t]
  <2>1. PICK row, x, C : row = layer.rows[t] /\ x = v[t] /\ C = 1 .. n
    OBVIOUS
  <2>2. row \in [C -> Nat] /\ IsFiniteSet(C) /\ Cardinality(C) = n /\ SumFunction(row) = Scale
    BY <1>1, <2>1
  <2>3. 1 \in 1 .. n
    BY <1>1
  <2>4. x \in Nat /\ \A i \in C : row[i] = x
    BY <1>1, <1>3, <2>1, <2>3
  <2>5. row = [i \in C |-> x]
    BY <2>2, <2>4
  <2>6. SumFunction([i \in C |-> x]) = x * Cardinality(C)
    <3>1. x \in Int
      BY <2>4
    <3> QED
      BY <2>2, <3>1, SumOfSame
  <2> QED
    BY <2>1, <2>2, <2>4, <2>5, <2>6
<1>5. ASSUME NEW t \in 1 .. tok, NEW s \in 1 .. tok
      PROVE  ShareOf(layer.rows[t], TopK(layer.rows[s], k)) = v[t] * k
  <2>1. PICK row, x, C, A : row = layer.rows[t] /\ x = v[t] /\ C = 1 .. n /\ A = TopK(layer.rows[s], k)
    OBVIOUS
  <2>2. row \in [C -> Nat] /\ IsFiniteSet(C) /\ DOMAIN row = C
    BY <1>1, <2>1
  <2>5. x \in Int /\ \A i \in C : row[i] = x
    BY <1>4, <2>1
  <2>3. A \in SUBSET C /\ Cardinality(A) = k
    <3>1. PICK line \in Seq(Nat) : line = layer.rows[s] /\ Len(line) = n /\ DOMAIN line = 1 .. n
      BY <1>1
    <3>2. k \in 0 .. Len(line)
      BY <1>1, <3>1
    <3>3. TopK(line, k) \in SUBSET DOMAIN line /\ Cardinality(TopK(line, k)) = k
      BY <3>2, TopCounts
    <3> QED
      BY <2>1, <3>1, <3>3
  <2>4. SumFunction([i \in C |-> IF i \in A THEN x ELSE 0]) = x * Cardinality(A)
    BY <2>2, <2>3, <2>5, SumOfConstant
  <2>6. ShareOf(row, A) = SumFunction([i \in C |-> IF i \in A THEN x ELSE 0])
    <3>1. [i \in DOMAIN row |-> IF i \in A THEN row[i] ELSE 0] = [i \in C |-> IF i \in A THEN x ELSE 0]
      BY <2>2, <2>5
    <3> QED
      BY <3>1 DEF ShareOf
  <2> QED
    BY <2>1, <2>3, <2>4, <2>6
<1>6. PICK f : f = [t \in 1 .. tok |-> SumFunction([s \in 1 .. tok |-> ShareOf(layer.rows[t], TopK(layer.rows[s], k))])]
  OBVIOUS
<1>7. ASSUME NEW t \in 1 .. tok PROVE f[t] \in Int /\ n * f[t] = (Scale * k) * tok
  <2>1. PICK x \in Nat : x = v[t] /\ x * n = Scale
    BY <1>4
  <2>2. PICK c \in Nat : c = x * k
    <3>1. x * k \in Nat
      OBVIOUS
    <3> QED
      BY <3>1
  <2>3. [s \in 1 .. tok |-> ShareOf(layer.rows[t], TopK(layer.rows[s], k))] = [s \in 1 .. tok |-> c]
    BY <1>5, <2>1, <2>2
  <2>4. SumFunction([s \in 1 .. tok |-> c]) = c * Cardinality(1 .. tok)
    <3>1. PICK T : T = 1 .. tok
      OBVIOUS
    <3>2. c \in Int /\ IsFiniteSet(T)
      BY <1>1, <3>1
    <3>3. SumFunction([s \in T |-> c]) = c * Cardinality(T)
      BY <3>2, SumOfSame
    <3> QED
      BY <3>1, <3>3
  <2>5. f[t] = (x * k) * tok
    BY <1>1, <1>6, <2>2, <2>3, <2>4
  <2>6. n * ((x * k) * tok) = ((x * n) * k) * tok /\ (x * k) * tok \in Int
    BY <1>1
  <2> QED
    BY <2>1, <2>5, <2>6
<1>8. n * SumFunction(f) = ((Scale * k) * tok) * tok
  <2>0. PICK c \in Int : c = (Scale * k) * tok
    <3>1. Scale \in Int /\ k \in Int /\ tok \in Int
      BY <1>1
    <3>2. Scale * k \in Int
      BY <3>1
    <3>3. ASSUME NEW m \in Int, NEW q \in Int PROVE m * q \in Int
      OBVIOUS
    <3>4. (Scale * k) * tok \in Int
      BY <3>1, <3>2, <3>3
    <3> QED
      BY <3>4
  <2>1. PICK T : T = 1 .. tok /\ c = (Scale * k) * tok
    BY <2>0
  <2>2. f \in [T -> Int] /\ IsFiniteSet(T) /\ Cardinality(T) = tok /\ \A t \in T : n * f[t] = c
    BY <1>1, <1>6, <1>7, <2>1
  <2>3. SumFunction([t \in T |-> n * f[t]]) = n * SumFunction(f)
    BY <1>1, <2>2, SumScales
  <2>4. SumFunction([t \in T |-> c]) = c * tok
    BY <2>2, SumOfSame
  <2>5. [t \in T |-> n * f[t]] = [t \in T |-> c]
    BY <2>2
  <2> QED
    BY <2>1, <2>3, <2>4, <2>5
<1>9. LayerLoss(layer, p) = n * SumFunction(f)
  BY <1>2, <1>6, LossAsShares
<1>10. ((Scale * k) * tok) * tok = k * Scale * tok * tok
  <2>1. Scale * k = k * Scale
    BY <1>1
  <2> QED
    BY <2>1
<1> QED
  BY <1>2, <1>8, <1>9, <1>10

(* A layer assigns every token to as many columns as are chosen.           *)
LEMMA AssignedSum ==
  ASSUME NEW layer, NEW tok, NEW n, Logits(layer, tok, n), NEW p, p.perToken \in Nat
  PROVE  /\ Assigned(layer, p) \in [1 .. n -> Nat]
         /\ SumFunction(Assigned(layer, p)) = tok * (IF Kind(n, p) = "full" THEN Chosen(p, n) ELSE n)
<1>1. /\ tok \in Nat /\ n \in Nat /\ tok > 0 /\ n > 0
      /\ DOMAIN layer.rows = 1 .. tok /\ TokenCount(layer) = tok /\ Width(layer) = n
      /\ \A t \in 1 .. tok : layer.rows[t] \in Seq(Nat) /\ Len(layer.rows[t]) = n /\ DOMAIN layer.rows[t] = 1 .. n
      /\ IsFiniteSet(1 .. tok) /\ Cardinality(1 .. tok) = tok /\ IsFiniteSet(1 .. n) /\ Cardinality(1 .. n) = n
  BY LogitsTell
<1>2. PICK k \in 1 .. n : k = Chosen(p, n)
  BY <1>1, ChosenType
<1>3. PICK T, C : T = 1 .. tok /\ C = 1 .. n
  OBVIOUS
<1>4. IsFiniteSet(T) /\ Cardinality(T) = tok /\ IsFiniteSet(C) /\ Cardinality(C) = n
  BY <1>1, <1>3
<1>5. CASE Kind(n, p) = "full"
  <2>1. PICK top : top = [t \in T |-> TopK(layer.rows[t], k)]
    OBVIOUS
  <2>2. \A t \in T : top[t] \in SUBSET C /\ Cardinality(top[t]) = k
    <3> TAKE t \in T
    <3>1. PICK line \in Seq(Nat) : line = layer.rows[t] /\ Len(line) = n /\ DOMAIN line = 1 .. n
      BY <1>1, <1>3
    <3>2. k \in 0 .. Len(line)
      BY <1>1, <3>1
    <3>3. TopK(line, k) \in SUBSET DOMAIN line /\ Cardinality(TopK(line, k)) = k
      BY <3>2, TopCounts
    <3> QED
      BY <1>3, <2>1, <3>1, <3>3
  <2>3. PICK sent : sent = [i \in C |-> {t \in T : i \in top[t]}]
    OBVIOUS
  <2>4. Assigned(layer, p) = [i \in C |-> Cardinality(sent[i])]
    <3>1. Assigned(layer, p) = [i \in 1 .. n |-> Cardinality({t \in 1 .. tok : i \in TopK(layer.rows[t], k)})]
      BY <1>1, <1>2, <1>5 DEF Assigned, Dispatched
    <3>2. \A i \in C : sent[i] = {t \in T : i \in TopK(layer.rows[t], k)}
      BY <2>1, <2>3
    <3> QED
      BY <1>3, <3>1, <3>2
  <2>5. \A i \in C : sent[i] \in SUBSET T /\ Cardinality(sent[i]) \in Nat
    <3> TAKE i \in C
    <3>1. sent[i] \in SUBSET T
      BY <2>3
    <3> QED
      BY <1>4, <3>1, FS_Subset, FS_CardinalityType
  <2>6. PICK g : g = [i \in C |-> [t \in T |-> IF t \in sent[i] THEN 1 ELSE 0]]
    OBVIOUS
  <2>7. Numbers(C, T, g)
    BY <2>6 DEF Numbers
  <2>8. ByRows(C, T, g) = ByColumns(C, T, g)
    BY <1>4, <2>7, SumsSwap
  <2>9. ByRows(C, T, g) = SumFunction(Assigned(layer, p))
    <3>1. \A i \in C : SumFunction([t \in T |-> g[i][t]]) = Cardinality(sent[i])
      <4> TAKE i \in C
      <4>1. PICK A \in SUBSET T : A = sent[i]
        BY <2>5
      <4>2. SumFunction([t \in T |-> IF t \in A THEN 1 ELSE 0]) = Cardinality(A)
        BY <1>4, SumCounts
      <4>3. [t \in T |-> g[i][t]] = [t \in T |-> IF t \in A THEN 1 ELSE 0]
        BY <2>6, <4>1
      <4> QED
        BY <4>1, <4>2, <4>3
    <3>2. [i \in C |-> SumFunction([t \in T |-> g[i][t]])] = Assigned(layer, p)
      BY <2>4, <3>1
    <3> QED
      BY <3>2 DEF ByRows
  <2>10. ByColumns(C, T, g) = k * tok
    <3>1. \A t \in T : SumFunction([i \in C |-> g[i][t]]) = k
      <4> TAKE t \in T
      <4>1. PICK A \in SUBSET C : A = top[t] /\ Cardinality(A) = k
        BY <2>2
      <4>2. SumFunction([i \in C |-> IF i \in A THEN 1 ELSE 0]) = Cardinality(A)
        BY <1>4, SumCounts
      <4>3. \A i \in C : g[i][t] = IF i \in A THEN 1 ELSE 0
        BY <2>3, <2>6, <4>1
      <4>4. [i \in C |-> g[i][t]] = [i \in C |-> IF i \in A THEN 1 ELSE 0]
        BY <4>3
      <4> QED
        BY <4>1, <4>2, <4>4
    <3>2. [t \in T |-> SumFunction([i \in C |-> g[i][t]])] = [t \in T |-> k]
      BY <3>1
    <3>3. SumFunction([t \in T |-> k]) = k * Cardinality(T)
      <4>1. k \in Int
        BY <1>1
      <4> QED
        BY <1>4, <4>1, SumOfSame
    <3> QED
      BY <1>4, <3>2, <3>3 DEF ByColumns
  <2>11. k * tok = tok * k
    BY <1>1
  <2>12. SumFunction(Assigned(layer, p)) = tok * k
    BY <2>8, <2>9, <2>10, <2>11
  <2>13. Assigned(layer, p) \in [C -> Nat]
    BY <2>4, <2>5
  <2> QED
    BY <1>2, <1>3, <1>5, <2>12, <2>13
<1>6. CASE Kind(n, p) # "full"
  <2>1. Assigned(layer, p) = [i \in C |-> tok]
    BY <1>1, <1>3, <1>6 DEF Assigned
  <2>2. SumFunction([i \in C |-> tok]) = tok * Cardinality(C)
    <3>1. tok \in Int
      BY <1>1
    <3> QED
      BY <1>4, <3>1, SumOfSame
  <2> QED
    BY <1>1, <1>3, <1>4, <1>6, <2>1, <2>2
<1> QED
  BY <1>5, <1>6

(* A set of naturals with a bound has a greatest element.                  *)
LEMMA GreatestNatural ==
  ASSUME NEW E \in SUBSET Nat, E # {}, NEW b \in Nat, \A x \in E : x <= b
  PROVE  Max(E) \in E /\ \A x \in E : x <= Max(E)
<1> DEFINE F == {b - x : x \in E}
<1>1. F \in SUBSET Nat /\ F # {}
  <2>1. \A x \in E : b - x \in Nat
    OBVIOUS
  <2> QED
    BY <2>1
<1>2. PICK y \in F : \A z \in F : y <= z
  <2> HIDE DEF F
  <2> QED
    BY <1>1, LeastNatural
<1>3. PICK x \in E : y = b - x
  OBVIOUS
<1>4. \A z \in E : x >= z
  <2> TAKE z \in E
  <2>1. b - x <= b - z
    BY <1>2, <1>3
  <2> QED
    BY <2>1
<1>5. Max(E) \in E /\ \A z \in E : Max(E) >= z
  BY <1>4 DEF Max
<1> QED
  BY <1>5

(* The loads of a forward.                                                 *)
LEMMA LoadsAreAll ==
  ASSUME NEW out, NEW B, IsFiniteSet(B), B # {}, NEW tok, NEW n, NEW p, p.perToken \in Nat,
         B = Balanced(out, p), n = Columns(out, p), n \in Nat, n > 0,
         \A k \in B : Logits(out[k], tok[k], n)
  PROVE  /\ SumFunction(Loads(out, p)) =
              SumFunction([k \in B |-> TokenCount(out[k]) * (IF Kind(n, p) = "full" THEN Chosen(p, n) ELSE n)])
         /\ Max(Range(Loads(out, p))) * n >= SumFunction(Loads(out, p))
<1>1. PICK C, each : C = 1 .. n /\ each = IF Kind(n, p) = "full" THEN Chosen(p, n) ELSE n
  OBVIOUS
<1>2. IsFiniteSet(C) /\ Cardinality(C) = n
  <2>1. IsFiniteSet(1 .. n) /\ Cardinality(1 .. n) = n
    BY FS_Interval
  <2> QED
    BY <1>1, <2>1
<1>3. PICK g : g = [k \in B |-> Assigned(out[k], p)]
  OBVIOUS
<1>4. \A k \in B : g[k] \in [C -> Nat] /\ SumFunction(g[k]) = TokenCount(out[k]) * each
  <2> TAKE k \in B
  <2>1. PICK layer, m : layer = out[k] /\ m = tok[k]
    OBVIOUS
  <2>2. Logits(layer, m, n)
    BY <2>1
  <2>3. /\ Assigned(layer, p) \in [1 .. n -> Nat]
        /\ SumFunction(Assigned(layer, p)) = m * (IF Kind(n, p) = "full" THEN Chosen(p, n) ELSE n)
    BY <2>2, AssignedSum
  <2>4. TokenCount(layer) = m
    BY <2>2, LogitsTell
  <2> QED
    BY <1>1, <1>3, <2>1, <2>3, <2>4
<1>5. PICK loads : loads = Loads(out, p)
  OBVIOUS
<1>6. loads = [i \in C |-> SumFunction([k \in B |-> g[k][i]])]
  <2>1. \A i \in C : [k \in B |-> g[k][i]] = [k \in Balanced(out, p) |-> Assigned(out[k], p)[i]]
    BY <1>3
  <2> QED
    BY <1>1, <1>5, <2>1 DEF Loads
<1>7. loads \in [C -> Nat]
  <2>1. \A i \in C : SumFunction([k \in B |-> g[k][i]]) \in Nat
    <3> TAKE i \in C
    <3>1. PICK f : f = [k \in B |-> g[k][i]]
      OBVIOUS
    <3>2. f \in [B -> Nat]
      BY <1>4, <3>1
    <3>3. SumFunction(f) \in Nat
      BY <3>2, SumOfNaturals
    <3> QED
      BY <3>1, <3>3
  <2> QED
    BY <1>6, <2>1
<1>8. SumFunction(loads) = SumFunction([k \in B |-> TokenCount(out[k]) * each])
  <2>1. Numbers(B, C, g)
    BY <1>4 DEF Numbers
  <2>2. ByRows(B, C, g) = ByColumns(B, C, g)
    BY <1>2, <2>1, SumsSwap
  <2>3. \A k \in B : SumFunction([i \in C |-> g[k][i]]) = TokenCount(out[k]) * each
    <3> TAKE k \in B
    <3>1. [i \in C |-> g[k][i]] = g[k]
      BY <1>4
    <3> QED
      BY <1>4, <3>1
  <2>4. [k \in B |-> SumFunction([i \in C |-> g[k][i]])] = [k \in B |-> TokenCount(out[k]) * each]
    BY <2>3
  <2>5. ByRows(B, C, g) = SumFunction([k \in B |-> TokenCount(out[k]) * each])
    BY <2>4 DEF ByRows
  <2>6. ByColumns(B, C, g) = SumFunction(loads)
    BY <1>6 DEF ByColumns
  <2> QED
    BY <2>2, <2>5, <2>6
<1>9. PICK E : E = Range(loads)
  OBVIOUS
<1>10. E \in SUBSET Nat /\ E # {} /\ \A i \in C : loads[i] \in E
  <2>1. 1 \in C
    BY <1>1
  <2> QED
    BY <1>7, <1>9, <2>1 DEF Range
<1>11. PICK h : Sums(h, loads, C) /\ SumFunction(loads) = h[C]
  <2>1. loads \in [C -> Int]
    BY <1>7
  <2> QED
    BY <1>2, <2>1, SumHasTable
<1>12. SumFunction(loads) \in Nat /\ \A i \in C : loads[i] <= SumFunction(loads)
  <2>1. SumFunction(loads) \in Nat
    BY <1>2, <1>7, SumOfNaturals
  <2>2. ASSUME NEW i \in C PROVE loads[i] <= h[C]
    <3>1. h[C] = loads[i] + h[C \ {i}] /\ C \ {i} \in SUBSET C
      BY <1>11 DEF Sums
    <3>2. 0 <= h[C \ {i}] /\ h[C \ {i}] \in Int
      <4>1. \A x \in C : loads[x] \in Nat
        BY <1>7
      <4>2. 0 <= h[C \ {i}]
        BY <1>2, <1>11, <3>1, <4>1, SumsGrow
      <4> QED
        BY <1>11, <3>1, <4>2 DEF Sums
    <3>3. loads[i] \in Nat
      BY <1>7
    <3> QED
      BY <3>1, <3>2, <3>3
  <2> QED
    BY <1>11, <2>1, <2>2
<1>13. \A x \in E : x <= SumFunction(loads)
  BY <1>7, <1>9, <1>12 DEF Range
<1>14. Max(E) \in E /\ \A x \in E : x <= Max(E)
  BY <1>10, <1>12, <1>13, GreatestNatural
<1>15. PICK top \in Nat : top = Max(E)
  BY <1>10, <1>14
<1>16. SumFunction(loads) <= top * n
  <2>1. PICK same : same = [i \in C |-> top]
    OBVIOUS
  <2>2. same \in [C -> Int] /\ loads \in [C -> Int] /\ \A i \in C : loads[i] <= same[i]
    BY <1>7, <1>10, <1>14, <1>15, <2>1
  <2>3. SumFunction(loads) <= SumFunction(same)
    BY <1>2, <2>2, SumGrows
  <2>4. SumFunction([i \in C |-> top]) = top * Cardinality(C)
    <3>1. top \in Int
      OBVIOUS
    <3> QED
      BY <1>2, <3>1, SumOfSame
  <2> QED
    BY <1>2, <2>1, <2>3, <2>4
<1>17. top * n >= SumFunction(loads)
  <2>1. PICK x \in Int, y \in Int : x = top * n /\ y = SumFunction(loads)
    <3>1. top * n \in Int
      OBVIOUS
    <3> QED
      BY <1>12, <3>1
  <2> QED
    BY <1>16, <2>1
<1> QED
  BY <1>1, <1>5, <1>8, <1>9, <1>15, <1>17

(* What was asked is one of what may be asked.                             *)
LossInv == outputs = [asked |-> outputs.asked, answer |-> outputs.answer] /\ outputs.asked \in Asked

(* What is asked of a layer.                                               *)
LEMMA LayersAsked ==
  ASSUME LossAssumption, NEW a \in Asked, NEW k \in Balanced(a.layers, a.profile)
  PROVE  /\ a.layers[k] = [form |-> a.layers[k].form, rows |-> a.layers[k].rows]
         /\ Logits(a.layers[k], TokenCount(a.layers[k]), Width(a.layers[k]))
         /\ Scale \in Nat /\ a.profile.perToken \in Nat
         /\ DOMAIN a.layers[k].rows = 1 .. TokenCount(a.layers[k])
         /\ \A t \in DOMAIN a.layers[k].rows : SumFunction(a.layers[k].rows[t]) = Scale
<1>1. PICK S : S = [form : {"tensor", "pair", "other"}, rows : Seq(Seq(Nat))]
  OBVIOUS
<1>2. a.layers \in Seq(S) /\ a.profile.perToken \in Nat /\ Scale \in Nat
  BY <1>1 DEF LossAssumption
<1>3. k \in DOMAIN a.layers
  BY DEF Balanced, Normalized
<1>4. PICK layer : layer = a.layers[k]
  OBVIOUS
<1>5. layer \in S
  BY <1>2, <1>3, <1>4, LenProperties, ElementOfSeq
<1>6. layer = [form |-> layer.form, rows |-> layer.rows] /\ layer.rows \in Seq(Seq(Nat))
  BY <1>1, <1>5
<1>7. IsLayer(layer)
  BY <1>3, <1>4 DEF LossAssumption
<1>8. Len(layer.rows) \in Nat /\ DOMAIN layer.rows = 1 .. Len(layer.rows)
  <2>1. PICK Q : Q = Seq(Nat)
    OBVIOUS
  <2>2. layer.rows \in Seq(Q)
    BY <1>6, <2>1
  <2> QED
    BY <2>2, LenProperties
<1>9. Width(layer) \in Nat
  <2>1. 1 \in 1 .. Len(layer.rows)
    BY <1>7, <1>8 DEF IsLayer, TokenCount
  <2>2. layer.rows[1] \in Seq(Nat)
    BY <1>6, <2>1, ElementOfSeq
  <2> QED
    BY <2>2, LenProperties DEF Width
<1>10. Logits(layer, TokenCount(layer), Width(layer))
  BY <1>6, <1>7, <1>8, <1>9 DEF Logits, IsLayer, TokenCount
<1> QED
  BY <1>2, <1>4, <1>6, <1>7, <1>8, <1>10 DEF IsLayer, TokenCount

(* The places of a sequence are finitely many.                             *)
LEMMA PlacesFinite ==
  ASSUME NEW S, NEW q \in Seq(S)
  PROVE  IsFiniteSet(DOMAIN q)
<1>1. Len(q) \in Nat
  BY LenProperties
<1>2. DOMAIN q = 1 .. Len(q)
  BY LenProperties
<1> QED
  BY <1>1, <1>2, FS_Interval

(* What is answered about it.                                              *)
LEMMA AnswersAreSound ==
  ASSUME LossAssumption, NEW a \in Asked
  PROVE  CollapseCostsMost(a.layers, a.profile) /\ LoadsAddUp(a.layers, a.profile)
<1>1. PICK out, p : out = a.layers /\ p = a.profile
  OBVIOUS
<1>2. /\ p.perToken \in Nat /\ Scale \in Nat
      /\ out \in Seq([form : {"tensor", "pair", "other"}, rows : Seq(Seq(Nat))])
  BY <1>1 DEF LossAssumption
<1>3. ASSUME NEW k \in Balanced(out, p), NEW layer, layer = out[k]
      PROVE  /\ layer = [form |-> layer.form, rows |-> layer.rows]
             /\ Logits(layer, TokenCount(layer), Width(layer))
             /\ DOMAIN layer.rows = 1 .. TokenCount(layer)
             /\ \A t \in DOMAIN layer.rows : SumFunction(layer.rows[t]) = Scale
  BY <1>1, <1>3, LayersAsked
<1>4. CollapseCostsMost(out, p)
  <2> SUFFICES ASSUME NEW k \in Balanced(out, p), Kind(Width(out[k]), p) = "full"
               PROVE  /\ LayerLoss(out[k], p) <= LayerLoss(Collapsed(out[k]), p)
                      /\ (\A t \in DOMAIN out[k].rows : \A i, j \in 1 .. Width(out[k]) : out[k].rows[t][i] = out[k].rows[t][j]) =>
                           LayerLoss(out[k], p) = Chosen(p, Width(out[k])) * Scale * TokenCount(out[k]) * TokenCount(out[k])
    BY DEF CollapseCostsMost
  <2>1. PICK layer, tok, n : layer = out[k] /\ tok = TokenCount(layer) /\ n = Width(layer)
    OBVIOUS
  <2>2. /\ layer = [form |-> layer.form, rows |-> layer.rows] /\ Logits(layer, tok, n)
        /\ DOMAIN layer.rows = 1 .. tok /\ Kind(n, p) = "full"
        /\ \A t \in 1 .. tok : SumFunction(layer.rows[t]) = Scale
    BY <1>3, <2>1
  <2>3. LayerLoss(layer, p) <= LayerLoss(Collapsed(layer), p)
    BY <1>2, <2>2, CollapseIsDearest
  <2>4. ASSUME \A t \in DOMAIN layer.rows : \A i, j \in 1 .. n : layer.rows[t][i] = layer.rows[t][j]
        PROVE  LayerLoss(layer, p) = Chosen(p, n) * Scale * tok * tok
    <3>1. \A t \in 1 .. tok : \A i, j \in 1 .. n : layer.rows[t][i] = layer.rows[t][j]
      BY <2>2, <2>4
    <3> QED
      BY <1>2, <2>2, <3>1, EvenCosts
  <2> QED
    BY <2>1, <2>3, <2>4
<1>5. LoadsAddUp(out, p)
  <2> SUFFICES ASSUME Utilization(out, p) # << >>
               PROVE  /\ Utilization(out, p).total =
                            SumFunction([k \in Balanced(out, p) |-> TokenCount(out[k]) *
                               (IF Kind(Columns(out, p), p) = "full" THEN Chosen(p, Columns(out, p)) ELSE Columns(out, p))])
                      /\ Utilization(out, p).max * Columns(out, p) >= Utilization(out, p).total
    BY DEF LoadsAddUp
  <2>1. PICK B, n, tok : B = Balanced(out, p) /\ n = Columns(out, p) /\ tok = [k \in Balanced(out, p) |-> TokenCount(out[k])]
    OBVIOUS
  <2>2. B # {} /\ \A k \in B : Width(out[k]) = n
    BY <2>1 DEF Utilization
  <2>3. Utilization(out, p).total = SumFunction(Loads(out, p)) /\ Utilization(out, p).max = Max(Range(Loads(out, p)))
    BY <2>1, <2>2 DEF Utilization
  <2>4. B \in SUBSET DOMAIN out
    BY <2>1 DEF Balanced, Normalized
  <2>5. IsFiniteSet(B)
    <3>1. PICK S : S = [form : {"tensor", "pair", "other"}, rows : Seq(Seq(Nat))]
      OBVIOUS
    <3>2. out \in Seq(S)
      BY <1>2, <3>1
    <3>3. IsFiniteSet(DOMAIN out)
      BY <3>2, PlacesFinite
    <3> QED
      BY <2>4, <3>3, FS_Subset
  <2>6. \A k \in B : Logits(out[k], tok[k], n)
    BY <1>3, <2>1, <2>2
  <2>7. n \in Nat /\ n > 0
    BY <2>2, <2>6 DEF Logits
  <2>8. /\ SumFunction(Loads(out, p)) =
              SumFunction([k \in B |-> TokenCount(out[k]) * (IF Kind(n, p) = "full" THEN Chosen(p, n) ELSE n)])
        /\ Max(Range(Loads(out, p))) * n >= SumFunction(Loads(out, p))
    BY <1>2, <2>1, <2>2, <2>5, <2>6, <2>7, LoadsAreAll
  <2> QED
    BY <2>1, <2>3, <2>8
<1> QED
  BY <1>1, <1>4, <1>5

(* The loss and the loads of a forward are sound: for any logits and       *)
(* models, sending every token to the same experts costs at least as much  *)
(* as what the router did, an even router costs what it should, and the    *)
(* logged loads are all assignments (trainer/moe.py:130-291).              *)
THEOREM RouterLossAlwaysSound == MCSetupSpec => []RouterLossIsSound
<1>1. MCSetupInit => (part = "loss" => LossInv)
  BY DEF MCSetupInit, LossInit, LossInv
<1>2. (part = "loss" => LossInv) /\ [MCSetupNext]_mcVars => (part = "loss" => LossInv)'
  <2> SUFFICES ASSUME part = "loss" => LossInv, [MCSetupNext]_mcVars PROVE (part = "loss" => LossInv)'
    OBVIOUS
  <2>1. part' = part /\ (outputs' = outputs \/ (part = "loss" /\ Compute))
    BY DEF MCSetupNext, mcVars
  <2>2. ASSUME part = "loss", Compute PROVE LossInv'
    <3>1. PICK x, y : outputs = [asked |-> x, answer |-> y] /\ x \in Asked
      BY <2>2 DEF LossInv
    <3>2. PICK z : outputs' = [outputs EXCEPT !.answer = z]
      BY <2>2 DEF Compute
    <3>3. outputs' = [asked |-> x, answer |-> z]
      BY <3>1, <3>2
    <3> QED
      BY <3>1, <3>3 DEF LossInv
  <2>3. ASSUME outputs' = outputs PROVE (part = "loss" => LossInv)'
    BY <2>1, <2>3 DEF LossInv
  <2> QED
    BY <2>1, <2>2, <2>3
<1>3. (part = "loss" => LossInv) => RouterLossIsSound
  BY LossAssumption, AnswersAreSound DEF LossInv, RouterLossIsSound
<1> QED
  BY <1>1, <1>2, <1>3, PTL DEF MCSetupSpec
=============================================================================
