------------------------------ MODULE TokenCache -----------------------------
(* persist_tokenized as bhaskera-tokenize runs it: one directory per hash of  *)
(* the settings, parquet files written by Ray in any order, metadata.json     *)
(* last.  Several processes may run over one storage path, and each can die   *)
(* at any point.  Nothing in the directory is locked.                         *)
EXTENDS Naturals, FiniteSets

CONSTANTS
    Process,    \* the processes that share the storage
    Setting,    \* [verified, hashed]: what metadata.json is compared on
                \* (model, length, dataset and split, format), and the options,
                \* which only the hash knows
    Part,       \* the parquet files of a tokenized dataset
    MayOverwrite,  \* the values of overwrite_cache
    MaxRuns     \* bound: command lines started in a behaviour

NoMeta == [verified |-> "none", hashed |-> "none"]
TornMeta == [verified |-> "torn", hashed |-> "torn"]

\* Two settings differ in what metadata.json tells or in an option; a file that
\* is not there or was cut off tells neither.
ASSUME SettingAssumption ==
    /\ \A s \in Setting : /\ s = [verified |-> s.verified, hashed |-> s.hashed]
                         /\ s.verified \notin {NoMeta.verified, TornMeta.verified}
    /\ MayOverwrite \subseteq BOOLEAN

MetaEntry == [run |-> 0, setting |-> NoMeta, part |-> "metadata.json"]

FaultyKey(setting) == setting.verified
Key(setting) == <<setting.verified, setting.hashed>>
Keys == {Key(s) : s \in Setting}

VARIABLES
    parquet,    \* key -> files of its directory: [run, setting, part]
    partial,    \* key -> those of them that were opened and never closed
    meta,       \* key -> what its metadata.json holds
    at, doing,    \* process -> where it is; its command line
    progress,   \* process -> part -> what it has done of it
    listing,    \* process -> entries rmtree has still to unlink
    runs,       \* command lines started
    printed,    \* keys whose path some run has printed
    removal     \* history: key -> removals that were begun and whose run has
                \* not written the directory anew (a dead run never will)
tokenVars == <<parquet, partial, meta, at, doing, progress, listing, runs, printed, removal>>

NoJob == [run |-> 0, setting |-> NoMeta, overwrite |-> FALSE]
JobKey(p) == Key(doing[p].setting)
Untouched == [x \in Part |-> "todo"]

TokenInit ==
    /\ parquet = [k \in Keys |-> {}] /\ partial = [k \in Keys |-> {}] /\ meta = [k \in Keys |-> NoMeta]
    /\ at = [p \in Process |-> "idle"] /\ doing = [p \in Process |-> NoJob]
    /\ progress = [p \in Process |-> Untouched] /\ listing = [p \in Process |-> {}]
    /\ runs = 0 /\ printed = {} /\ removal = [k \in Keys |-> {}]

Move(p, label) == at' = [at EXCEPT ![p] = label]

\* metadata.json says the same, and there is at least one parquet file, whole
\* or not.
VerifyCache(key, setting) ==
    /\ meta[key].verified = setting.verified
    /\ parquet[key] /= {}

Entries(key) == parquet[key] \cup (IF meta[key] = NoMeta THEN {} ELSE {MetaEntry})

\* A command line (options on it replace those of the file) for one split: the
\* cache is good, is to be removed, or is written.  Nothing before this touches
\* the storage.
Verify(p, setting, overwrite) ==
    LET key == Key(setting)
        hit == VerifyCache(key, setting) /\ ~overwrite
    IN  /\ at[p] = "idle" /\ runs < MaxRuns /\ runs' = runs + 1
        /\ \/ /\ hit /\ printed' = printed \cup {key}
              /\ UNCHANGED <<at, doing, progress, listing, removal>>
           \/ /\ ~hit /\ UNCHANGED printed
              /\ doing' = [doing EXCEPT ![p] = [run |-> runs', setting |-> setting, overwrite |-> overwrite]]
              /\ progress' = [progress EXCEPT ![p] = Untouched]
              /\ IF overwrite /\ Entries(key) /= {}
                 THEN /\ Move(p, "remove")
                      /\ listing' = [listing EXCEPT ![p] = Entries(key)]
                      /\ removal' = [removal EXCEPT ![key] = @ \cup {runs'}]
                 ELSE Move(p, "write") /\ UNCHANGED <<listing, removal>>
        /\ UNCHANGED <<parquet, partial, meta>>

\* shutil.rmtree unlinks what it has listed and raises for what is gone.  Who
\* writes to an unlinked file does not notice.
Unlink(p, entry) ==
    LET key == JobKey(p)
    IN  /\ at[p] = "remove" /\ entry \in listing[p]
        /\ IF entry = MetaEntry
           THEN meta[key] /= NoMeta /\ meta' = [meta EXCEPT ![key] = NoMeta] /\ UNCHANGED <<parquet, partial>>
           ELSE /\ entry \in parquet[key] /\ UNCHANGED meta
                /\ parquet' = [parquet EXCEPT ![key] = @ \ {entry}]
                /\ partial' = [partial EXCEPT ![key] = @ \ {entry}]
        /\ listing' = [listing EXCEPT ![p] = @ \ {entry}]
        /\ UNCHANGED <<at, doing, progress, runs, printed, removal>>

RemoveDirectory(p) ==
    /\ at[p] = "remove" /\ Entries(JobKey(p)) = {} /\ listing[p] = {}
    /\ Move(p, "write")
    /\ UNCHANGED <<parquet, partial, meta, doing, progress, listing, runs, printed, removal>>

\* Ray writes under names of its own: earlier files stay where they are.
Own(p, x) == [run |-> doing[p].run, setting |-> doing[p].setting, part |-> x]

OpenPart(p, x) ==
    /\ at[p] = "write" /\ progress[p][x] = "todo"
    /\ progress' = [progress EXCEPT ![p][x] = "open"]
    /\ parquet' = [parquet EXCEPT ![JobKey(p)] = @ \cup {Own(p, x)}]
    /\ partial' = [partial EXCEPT ![JobKey(p)] = @ \cup {Own(p, x)}]
    /\ UNCHANGED <<meta, at, doing, listing, runs, printed, removal>>

WritePart(p, x) ==
    /\ at[p] = "write" /\ progress[p][x] = "open"
    /\ progress' = [progress EXCEPT ![p][x] = "closed"]
    /\ partial' = [partial EXCEPT ![JobKey(p)] = @ \ {Own(p, x)}]
    /\ UNCHANGED <<parquet, meta, at, doing, listing, runs, printed, removal>>

FaultyAllWritten(p) == \E x \in Part : progress[p][x] = "closed"
AllWritten(p) == \A x \in Part : progress[p][x] = "closed"

OpenMetadata(p) ==
    /\ at[p] = "write" /\ AllWritten(p)
    /\ Move(p, "meta")
    /\ meta' = [meta EXCEPT ![JobKey(p)] = TornMeta]
    /\ UNCHANGED <<parquet, partial, doing, progress, listing, runs, printed, removal>>

WriteMetadata(p) ==
    /\ at[p] = "meta" /\ Move(p, "idle")
    /\ meta' = [meta EXCEPT ![JobKey(p)] = doing[p].setting]
    /\ printed' = printed \cup {JobKey(p)}
    /\ removal' = [removal EXCEPT ![JobKey(p)] = @ \ {doing[p].run}]
    /\ UNCHANGED <<parquet, partial, doing, progress, listing, runs>>

\* The process dies, or a call raises and main exits with 2: what it was
\* writing stays half written.
Die(p) ==
    /\ at[p] /= "idle" /\ Move(p, "idle")
    /\ UNCHANGED <<parquet, partial, meta, doing, progress, listing, runs, printed, removal>>

RunsDone == (\A p \in Process : at[p] = "idle") /\ runs = MaxRuns /\ UNCHANGED tokenVars

TokenNext ==
    \/ \E p \in Process :
        \/ \E s \in Setting, o \in MayOverwrite : Verify(p, s, o)
        \/ \E e \in listing[p] : Unlink(p, e)
        \/ \E x \in Part : OpenPart(p, x) \/ WritePart(p, x)
        \/ RemoveDirectory(p) \/ OpenMetadata(p) \/ WriteMetadata(p) \/ Die(p)
    \/ RunsDone

----------------------------------------------------------------------------
\* A directory whose path was printed holds every part of the dataset as a
\* file that was written to its end, and nothing but what was tokenized under
\* the settings that were asked for ("invalidates the cache without the user
\* having to clear it manually"), whichever runs died or worked beside each
\* other, unless a removal was begun and its run did not finish.
Settled(key) == key \in printed /\ removal[key] = {}
PrintedIsWhole == \A key \in Keys : Settled(key) => {f.part : f \in parquet[key] \ partial[key]} = Part
PrintedIsAsAsked == \A key \in Keys : \A f, g \in parquet[key] : f.setting = g.setting
PrintedIsGood == PrintedIsWhole /\ PrintedIsAsAsked

\* persist_tokenized: "Tokenize *ds* once and write to disk".  The code breaks
\* this after a run that died, whose files, half written ones too, stay beside
\* the good ones.  (No run checks it; see the README.)
TokenizedOnce == \A key \in Keys : Settled(key) => Cardinality(parquet[key]) <= Cardinality(Part)
=============================================================================
