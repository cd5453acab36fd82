--------------------------- MODULE DeepSeekServe ---------------------------
(***************************************************************************)
(* serve_deepseek (rudra/serve_deepseek_colossus.py): what is on which of  *)
(* the GPUs, the prefill (in one piece or in chunks), the lockstep decoding*)
(* of a batch with its end-of-sequence books, the flip audit against a     *)
(* teacher, the routing log, and the probes that draft with the shared     *)
(* experts only.  The model is the sequence of tokens it has been shown;   *)
(* which token it answers is free.                                         *)
(***************************************************************************)
EXTENDS Integers, Sequences, SequencesExt

CONSTANTS
  Batch,         \* the numbers of prompts to look at
  PromptLength,
  Token,         \* what the model may answer
  Eos,           \* eos_id
  MaxNew,        \* --max_new_tokens
  Teacher,       \* --teacher_tokens
  ChunkSize,     \* the values of --prefill_chunk to look at
  ProbeAt,       \* --svb_probe_positions
  ProbeK,        \* --svb_K
  LastLayer,     \* num_hidden_layers - 1
  Border         \* the first layer of the second GPU (30)

ASSUME ServingAssumption ==
  /\ Batch \subseteq Nat \ {0} /\ PromptLength \in Nat \ {0}
  /\ Eos \in Token /\ MaxNew \in Nat \ {0} /\ ChunkSize \subseteq Nat
  /\ Teacher \in Seq(Token) /\ Len(Teacher) >= MaxNew
  /\ LastLayer \in Nat /\ Border \in 1 .. LastLayer
  /\ ProbeAt \subseteq Int /\ ProbeK \in Nat

VARIABLES
  flags,      \* the command line
  stage,      \* where the program is
  generated,  \* generated_ids, one token of every row at each position
  cached,     \* past_key_values: what the cache holds
  seen,       \* what the model saw in its last forward
  chunkAt,    \* the loop variable of the chunked prefill
  step,       \* the loop variable of the decoding
  newCounts, finished,
  audit,      \* audit: the position, and what the model had seen
  routingLog, \* routing_log: "off", or which forwards it holds
  probesLeft, draft, \* svb: positions to do; the probe being done
  compared,   \* (token a draft stands for, token it was compared with)
  apart       \* did operands of one module meet on different devices?

deepVars == <<flags, stage, generated, cached, seen, chunkAt, step, newCounts, finished,
              audit, routingLog, probesLeft, draft, compared, apart>>

Row == 1 .. flags.batch
Prompt == [i \in 1 .. PromptLength |-> [r \in Row |-> "prompt"]]
Single == flags.batch = 1
NoDraft == [at |-> 0, context |-> << >>, tokens |-> << >>]

(* --teacher_tokens asserts a batch of one.                                *)
CommandLine ==
  {f \in [gpus : {1, 2}, useCache : BOOLEAN, chunk : ChunkSize, teacher : BOOLEAN,
          logRouting : BOOLEAN, batch : Batch] : f.teacher => f.batch = 1}

DeepInit ==
  /\ flags \in CommandLine
  /\ stage = "prefill"
  /\ generated = Prompt /\ cached = << >> /\ seen = << >>
  /\ chunkAt = 0 /\ step = 0
  /\ newCounts = [r \in Row |-> 0] /\ finished = [r \in Row |-> FALSE]
  /\ audit = {} /\ routingLog = "off"
  /\ probesLeft = ProbeAt /\ draft = NoDraft /\ compared = {}
  /\ apart = FALSE

-----------------------------------------------------------------------------
(* Devices: the embedding is on GPU 0, a layer where the border puts it,   *)
(* norm and head behind the last layer; gpu1_pre_hook moves what enters a  *)
(* layer of GPU 1.                                                         *)
FaultyLayerDevice(l) == IF flags.gpus = 1 \/ l <= Border THEN 0 ELSE 1
LayerDevice(l) == IF flags.gpus = 1 \/ l < Border THEN 0 ELSE 1
Hooked(l) == flags.gpus > 1 /\ l >= Border
HeadDevice == IF flags.gpus = 1 THEN 0 ELSE 1

(* Where the hidden states are when they reach layer l.                    *)
Entering[l \in 0 .. LastLayer] ==
  IF Hooked(l) THEN 1 ELSE IF l = 0 THEN 0 ELSE LayerDevice(l - 1)
Apart ==
  \/ \E l \in 0 .. LastLayer : Entering[l] # LayerDevice(l)
  \/ LayerDevice(LastLayer) # HeadDevice

(* A forward of the tokens in, on top of what the cache holds.             *)
Forward(in) ==
  /\ seen' = cached \o in
  /\ cached' = IF flags.useCache THEN cached \o in ELSE << >>
  /\ apart' = (apart \/ Apart)

-----------------------------------------------------------------------------
(* Prefill *)

PrefillWhole ==
  /\ stage = "prefill" /\ ~(flags.chunk > 0 /\ Len(generated) > flags.chunk)
  /\ Forward(generated)
  /\ stage' = "first"
  /\ UNCHANGED <<flags, generated, chunkAt, step, newCounts, finished, audit, routingLog,
                 probesLeft, draft, compared>>

FaultyPrefillChunk ==
  /\ stage = "prefill" /\ flags.chunk > 0 /\ Len(generated) > flags.chunk
  /\ Forward(SubSeq(generated, chunkAt + 1, chunkAt + flags.chunk - 1))
  /\ chunkAt' = chunkAt + flags.chunk
  /\ stage' = IF chunkAt' >= Len(generated) THEN "first" ELSE stage
  /\ UNCHANGED <<flags, generated, step, newCounts, finished, audit, routingLog, probesLeft,
                 draft, compared>>
PrefillChunk ==
  /\ stage = "prefill" /\ flags.chunk > 0 /\ Len(generated) > flags.chunk
  /\ LET end == IF chunkAt + flags.chunk < Len(generated) THEN chunkAt + flags.chunk
                ELSE Len(generated)
     IN  Forward(SubSeq(generated, chunkAt + 1, end))
  /\ chunkAt' = chunkAt + flags.chunk
  /\ stage' = IF chunkAt' >= Len(generated) THEN "first" ELSE stage
  /\ UNCHANGED <<flags, generated, step, newCounts, finished, audit, routingLog, probesLeft,
                 draft, compared>>

(* The audit writes down what the model answers at a position, and goes on *)
(* with the teacher's token where there is a teacher.                      *)
Audited(pos, context) ==
  IF Single THEN audit \cup {[pos |-> pos, seen |-> context]} ELSE audit
NextToken(pos, own) == IF flags.teacher THEN [r \in Row |-> Teacher[pos]] ELSE own

(* The first token counts for every row; whether it ends a row is not      *)
(* looked at.                                                              *)
FirstToken ==
  /\ stage = "first"
  /\ audit' = Audited(1, seen)
  /\ \E own \in [Row -> Token] : generated' = Append(generated, NextToken(1, own))
  /\ newCounts' = [r \in Row |-> 1]
  /\ stage' = "decode"
  /\ UNCHANGED <<flags, cached, seen, chunkAt, step, finished, routingLog, probesLeft, draft,
                 compared, apart>>

-----------------------------------------------------------------------------
(* Decode *)

(* Per-row books: a row counts its tokens up to its end, and the batch     *)
(* goes on in lockstep until every row has ended.                          *)
FaultyEndOfRows(next) ==
  /\ newCounts' = [r \in Row |-> newCounts[r] + 1]
  /\ finished' = [r \in Row |-> finished[r] \/ next[r] = Eos]
EndOfRows(next) ==
  /\ newCounts' = [r \in Row |-> IF finished[r] THEN newCounts[r] ELSE newCounts[r] + 1]
  /\ finished' = [r \in Row |-> finished[r] \/ next[r] = Eos]

FaultyAuditPosition == step + 1
AuditPosition == step + 2

DecodeStep ==
  /\ stage = "decode" /\ step < MaxNew - 1
  /\ Forward(IF flags.useCache THEN <<Last(generated)>> ELSE generated)
  /\ routingLog' = IF step = 0 /\ flags.logRouting THEN "decode" ELSE routingLog
  /\ audit' = Audited(AuditPosition, seen')
  /\ \E own \in [Row -> Token] :
       LET next == NextToken(AuditPosition, own) IN
       /\ EndOfRows(next)
       /\ generated' = Append(generated, next)
  /\ stage' = IF \A r \in Row : finished'[r] THEN "probes" ELSE stage
  /\ step' = step + 1
  /\ UNCHANGED <<flags, chunkAt, probesLeft, draft, compared>>

DecodeEnds ==
  /\ stage = "decode" /\ step = MaxNew - 1
  /\ stage' = "probes"
  /\ UNCHANGED <<flags, generated, cached, seen, chunkAt, step, newCounts, finished, audit,
                 routingLog, probesLeft, draft, compared, apart>>

-----------------------------------------------------------------------------
(* The probes: a fresh cache, the whole model over a prefix of the answer, *)
(* then ProbeK steps with the shared experts.  The list that holds the     *)
(* routing is copied before, and still there.                              *)

NewTokens == Len(generated) - PromptLength

StartProbe(p) ==
  /\ stage = "probes" /\ p \in probesLeft /\ p >= 1 /\ p < NewTokens
  /\ probesLeft' = probesLeft \ {p}
  /\ \E first \in Token :
       draft' = [at |-> p, tokens |-> << >>,
                 context |-> SubSeq(generated, 1, PromptLength + p) \o <<[r \in Row |-> first]>>]
  /\ routingLog' = IF routingLog = "off" THEN "off" ELSE "decode and probes"
  /\ stage' = "drafting"
  /\ apart' = (apart \/ Apart)
  /\ UNCHANGED <<flags, generated, cached, seen, chunkAt, step, newCounts, finished, audit,
                 compared>>

SkipProbe(p) ==
  /\ stage = "probes" /\ p \in probesLeft /\ ~(p >= 1 /\ p < NewTokens)
  /\ probesLeft' = probesLeft \ {p}
  /\ UNCHANGED <<flags, stage, generated, cached, seen, chunkAt, step, newCounts, finished,
                 audit, routingLog, draft, compared, apart>>

(* A draft is the model's answer to the context, so it stands for the      *)
(* token that would follow it.                                             *)
DraftStep ==
  /\ stage = "drafting" /\ Len(draft.tokens) < ProbeK
  /\ \E t \in Token :
       draft' = [draft EXCEPT !.tokens = Append(@, Len(draft.context) - PromptLength),
                              !.context = Append(@, [r \in Row |-> t])]
  /\ apart' = (apart \/ Apart)
  /\ UNCHANGED <<flags, stage, generated, cached, seen, chunkAt, step, newCounts, finished,
                 audit, routingLog, probesLeft, compared>>

(* truth starts one behind the prefix: ref_toks[p + 1 : ...].              *)
FaultyTruthOf(i) == draft.at + i - 1
TruthOf(i) == draft.at + i

ProbeEnds ==
  /\ stage = "drafting" /\ Len(draft.tokens) = ProbeK
  /\ compared' = compared \cup
       {<<draft.tokens[i], TruthOf(i)>> : i \in {j \in 1 .. ProbeK : TruthOf(j) < NewTokens}}
  /\ draft' = NoDraft /\ stage' = "probes"
  /\ UNCHANGED <<flags, generated, cached, seen, chunkAt, step, newCounts, finished, audit,
                 routingLog, probesLeft, apart>>

DeepNext ==
  \/ PrefillWhole \/ PrefillChunk \/ FirstToken \/ DecodeStep \/ DecodeEnds
  \/ \E p \in ProbeAt : StartProbe(p)
  \/ \E p \in ProbeAt : SkipProbe(p)
  \/ DraftStep \/ ProbeEnds

-----------------------------------------------------------------------------
(* The audit compares like with like: what the model had seen when it      *)
(* answered position pos is the prompt and the first pos - 1 tokens of the *)
(* answer, the teacher's where there is one; so one early difference does  *)
(* not spoil the positions behind it.  (Without a cache a chunked prefill  *)
(* shows the model its last chunk only.)                                   *)
AuditIsolatesPositions ==
  \A a \in audit :
    LET answer == SubSeq(generated, PromptLength + 1, PromptLength + a.pos - 1) IN
    /\ (a.pos > 1 \/ flags.useCache \/ flags.chunk = 0) => a.seen = Prompt \o answer
    /\ flags.teacher => \A i \in DOMAIN answer : \A r \in Row : answer[i][r] = Teacher[i]

(* A row's count is the length of its answer, up to the end of sequence    *)
(* the loop saw, however long the other rows of the batch go on; a draft   *)
(* is compared with the token of the answer it stands for; and no module   *)
(* of a forward has its operands on two devices.                           *)
AnswerLength(r) ==
  LET ends == {i \in 2 .. NewTokens : generated[PromptLength + i][r] = Eos}
  IN  IF ends = {} THEN NewTokens ELSE CHOOSE i \in ends : \A j \in ends : i <= j
RowsCounted == stage \in {"probes", "drafting"} => \A r \in Row : newCounts[r] = AnswerLength(r)
DraftsAligned == \A c \in compared : c[1] = c[2]
ServedTogether == RowsCounted /\ DraftsAligned /\ ~apart

(* The comment before the probes says that the routing log stops with the  *)
(* decoding: it never holds a forward of a probe.  The code breaks this.   *)
(* (No run checks it; see the README.)                                     *)
LogStopsWithDecode == routingLog # "decode and probes"
=============================================================================
