----------------------------- MODULE HugeServe -----------------------------
(***************************************************************************)
(* serve_huge_moe (inference/colossus/serve.py) over the layers of         *)
(* TieredMoE: the prompts go through the model in one call or in chunks,   *)
(* then every call of the model adds one token to each row of the batch,   *)
(* until each row has seen the end-of-sequence token or the limit is       *)
(* reached.                                                                *)
(*                                                                         *)
(* A column is one position of every row: Prompt or the rows' tokens.      *)
(* Only whether a token ends the sequence matters, so a token is Eos or    *)
(* Word.  Whether the model keeps the keys and values it is given and      *)
(* hands them back (past_key_values) depends on the model.  The            *)
(* teacher-forced audit replaces the tokens by given ones and is left out, *)
(* with the latencies, the routing log and the ledger.                     *)
(***************************************************************************)
EXTENDS TieredMoE

CONSTANTS Rows,         \* the batch
          PromptLen,    \* columns of the padded prompts
          PrefillChunk, \* prefill_chunk; 0: the whole prompt at once
          MaxNewTokens  \* max_new_tokens

ASSUME ServeAssumption ==
  /\ IsFiniteSet(Rows) /\ Rows # {}
  /\ PromptLen \in Nat \ {0}
  /\ {PrefillChunk, MaxNewTokens} \subseteq Nat

VARIABLES
  serve,     \* where serve_huge_moe is
  generated, \* generated_ids, as a sequence of columns
  past,      \* the columns in the key-value cache
  produced   \* every column the model has chosen, in order (for properties)

serveVars == <<serve, generated, past, produced>>
hugeVars == <<tieredVars, serveVars>>

Eos == "eos"
Columns == [Rows -> {Eos, "word"}]
Prompt == [r \in Rows |-> "prompt"]
Prompts(n) == [i \in 1..n |-> Prompt]

ServeStates ==
  [pc       : {"prefill", "running", "decode", "done"},
   cached   : BOOLEAN,           \* the model hands its cache back
   start    : 0..PromptLen,      \* prompt columns that were fed
   step     : Nat,               \* decode steps that were finished
   finished : [Rows -> BOOLEAN],
   counts   : [Rows -> Nat]]     \* new_counts

-----------------------------------------------------------------------------

ServeInit ==
  /\ Init
  /\ serve \in [pc : {"prefill"}, cached : BOOLEAN, start : {0},
                step : {0}, finished : {[r \in Rows |-> FALSE]},
                counts : {[r \in Rows |-> 1]}]
  /\ generated = Prompts(PromptLen)
  /\ past = << >>
  /\ produced = << >>

(* Call the model on some columns.                                         *)
FeedModel(columns) ==
  /\ Call(Cardinality(Rows) * Len(columns))
  /\ past' = IF serve.cached THEN past \o columns ELSE past
  /\ UNCHANGED <<generated, produced>>

(* The prompt, in chunks when it is longer than one.                       *)
FaultyChunkEnd(s) ==
  IF PrefillChunk = 0 THEN PromptLen
  ELSE IF s + PrefillChunk <= PromptLen THEN s + PrefillChunk ELSE s
ChunkEnd(s) ==
  IF PrefillChunk > 0 /\ s + PrefillChunk < PromptLen THEN s + PrefillChunk ELSE PromptLen
Prefill ==
  LET end == ChunkEnd(serve.start)
  IN  /\ serve.pc = "prefill"
      /\ FeedModel(SubSeq(generated, serve.start + 1, end))
      /\ serve' = [serve EXCEPT !.pc = "running", !.start = end]

(* The model returns: after the last chunk its choice is the first token,  *)
(* which no row is checked for and which is not put into generated_ids.    *)
ChunkDone ==
  /\ serve.pc = "running"
  /\ produced = << >>
  /\ host.pc = "idle"
  /\ serve.start < PromptLen
  /\ serve' = [serve EXCEPT !.pc = "prefill"]
  /\ UNCHANGED <<tieredVars, generated, past, produced>>

AfterStep(step, finished) ==
  IF step >= MaxNewTokens - 1 \/ \A r \in Rows : finished[r] THEN "done" ELSE "decode"

PrefillDone(column) ==
  /\ serve.pc = "running"
  /\ produced = << >>
  /\ host.pc = "idle"
  /\ Drained /\ dma = << >>                      \* torch.cuda.synchronize
  /\ serve.start = PromptLen
  /\ produced' = <<column>>
  /\ serve' = [serve EXCEPT !.pc = IF MaxNewTokens > 1 THEN "decode" ELSE "done"]
  /\ UNCHANGED <<tieredVars, generated, past>>

(* One decode step: the last column alone with a cache, everything again   *)
(* without.                                                                *)
NextToken == produced[Len(produced)]
Decode ==
  LET columns == IF serve.cached THEN <<NextToken>> ELSE Append(generated, NextToken)
  IN  /\ serve.pc = "decode"
      /\ FeedModel(columns)
      /\ serve' = [serve EXCEPT !.pc = "running"]

FaultyCounted(counts, finished) == [r \in Rows |-> counts[r] + 1]
Counted(counts, finished) ==
  [r \in Rows |-> IF finished[r] THEN counts[r] ELSE counts[r] + 1]

DecodeDone(column) ==
  LET finished == [r \in Rows |-> serve.finished[r] \/ column[r] = Eos]
  IN  /\ serve.pc = "running"
      /\ produced # << >>
      /\ host.pc = "idle"
      /\ Drained /\ dma = << >>                  \* torch.cuda.synchronize
      /\ produced' = Append(produced, column)
      /\ generated' = Append(generated, column)
      /\ serve' = [serve EXCEPT !.pc = AfterStep(serve.step + 1, finished),
                                !.step = @ + 1,
                                !.finished = finished,
                                !.counts = Counted(@, serve.finished)]
      /\ UNCHANGED <<tieredVars, past>>

ServeStep ==
  \/ Prefill \/ ChunkDone \/ Decode
  \/ \E column \in Columns : PrefillDone(column) \/ DecodeDone(column)
ModelStep == Forward /\ UNCHANGED serveVars
ServeNext ==
  \/ ServeStep
  \/ ModelStep
  \/ ReadFails /\ UNCHANGED serveVars
  \/ CopyWeights /\ UNCHANGED serveVars
  \/ Compute /\ UNCHANGED serveVars

ServeSpec == ServeInit /\ [][ServeNext]_hugeVars

(* The host keeps executing while it can, and so does each stream.         *)
FairServeSpec ==
  /\ ServeSpec
  /\ WF_hugeVars(ServeStep \/ ModelStep)
  /\ WF_hugeVars(CopyWeights /\ UNCHANGED serveVars)
  /\ WF_hugeVars(Compute /\ UNCHANGED serveVars)

-----------------------------------------------------------------------------
(* Properties *)

(* Every variable has its type.                                            *)
ServeTypeOK ==
  /\ TypeOK
  /\ serve \in ServeStates
  /\ generated \in Seq({Prompt} \cup Columns)
  /\ past \in Seq({Prompt} \cup Columns)
  /\ produced \in Seq(Columns)

(* With a cache, a call of the decode loop sees the whole sequence: when   *)
(* it is made the cache holds the prompt, every column of it once whatever *)
(* the chunks, and all the tokens before the one it is fed                 *)
(* (serve.py:172-187, 218-226).                                            *)
CacheFollows ==
  (serve.cached /\ serve.pc = "decode")
    => past = Prompts(PromptLen) \o SubSeq(produced, 1, Len(produced) - 1)

(* A row's count stands still once the row has produced its end of         *)
(* sequence: new_counts is the number of tokens up to the first Eos behind *)
(* the token of the prefill, or of all tokens (serve.py:206-208, 242-247). *)
CountsStop ==
  produced # << >> =>
    \A r \in Rows :
      LET ends == {i \in 2..Len(produced) : produced[i][r] = Eos}
      IN  serve.counts[r] = IF ends = {} THEN Len(produced) ELSE First(ends)

(* Well typed; with a cache a call of the decode loop sees every column    *)
(* once, and a row's count stands still once it has ended.                 *)
RowsKeepStep == ServeTypeOK /\ CacheFollows /\ CountsStop

(* Serving comes to an end unless reading a weight fails.                  *)
ServeEnds == <>(serve.pc = "done" \/ host.pc = "failed")

=============================================================================
