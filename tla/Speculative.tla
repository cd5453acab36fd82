---------------------------- MODULE Speculative ----------------------------
(***************************************************************************)
(* Speculative decoding: SpeculativeDecoder (inference/speculative.py) in  *)
(* the loop of _HFBackend._generate_speculative (inference/engine.py).     *)
(*                                                                         *)
(* In each step the draft model proposes DraftLen tokens, the target model *)
(* reads all of them in one call, and they are accepted up to the first    *)
(* one some row of the batch rejects.  A column is one token of each row.  *)
(* The models' own key-value caches are the columns they were fed, in      *)
(* order.  Probabilities only decide which rows may accept, so acceptance  *)
(* and sampling are arbitrary; a row that rejects its token resamples from *)
(* the part of the target's distribution above the draft's, where that     *)
(* token has no weight.                                                    *)
(***************************************************************************)
EXTENDS Naturals, SequencesExt

CONSTANTS Rows,        \* the batch
          Words,       \* tokens other than Eos
          PromptLen,   \* columns of the prompt
          DraftLen,    \* num_draft_tokens
          MaxNewTokens \* max_new_tokens

ASSUME SpeculativeAssumption ==
  /\ Rows # {} /\ Words # {}
  /\ {PromptLen, DraftLen} \subseteq Nat \ {0}
  /\ MaxNewTokens \in Nat

Eos == "eos"
ASSUME EosIsNoWord == Eos \notin Words

Tokens == Words \cup {Eos}
Columns == [Rows -> Tokens]
Prompt == [r \in Rows |-> "prompt"]

VARIABLES
  spec,      \* where the decoder is
  generated, \* the output so far, prompt included
  past,      \* past.target, past.draft: what each model has been fed
  rejected   \* has a token been rejected in this request? (for properties)

specVars == <<spec, generated, past, rejected>>

(* pc: "off" outside; "step" at the head of the engine's loop; "draft",    *)
(* "verify" and "judge" in the phases of a step; "append" back in the loop *)
(* with the tokens of the step in fresh.                                   *)
SpecStates ==
  [pc       : {"off", "step", "draft", "verify", "judge", "append"},
   hasDraft : BOOLEAN,
   cur      : Seq(Columns \cup {Prompt}),  \* cur_input
   drafts   : Seq(Columns),                \* draft_tokens
   fresh    : Seq(Columns),                \* accepted_list, new_tokens
   finished : SUBSET Rows,
   total    : Nat]                         \* total_new

NoPast == [target |-> << >>, draft |-> << >>]
Off(hasDraft) ==
  [pc |-> "off", hasDraft |-> hasDraft, cur |-> << >>, drafts |-> << >>,
   fresh |-> << >>, finished |-> {}, total |-> 0]

SpecInit ==
  /\ spec \in {Off(h) : h \in BOOLEAN}
  /\ generated = << >>
  /\ past = NoPast
  /\ rejected = FALSE

-----------------------------------------------------------------------------
(* The loop of _generate_speculative *)

Prompts == [i \in 1..PromptLen |-> Prompt]

(* A call: both caches start empty.                                        *)
SpecStart ==
  /\ spec.pc = "off"
  /\ spec' = [Off(spec.hasDraft) EXCEPT !.pc = "step", !.cur = Prompts]
  /\ generated' = Prompts
  /\ past' = NoPast
  /\ rejected' = FALSE

EnterStep ==
  /\ spec.pc = "step"
  /\ spec.total < MaxNewTokens
  /\ spec.finished # Rows
  /\ spec' = [spec EXCEPT !.pc = IF spec.hasDraft THEN "draft" ELSE "verify",
                          !.drafts = << >>, !.fresh = << >>]
  /\ UNCHANGED <<generated, past, rejected>>

(* The tokens of a step are appended, and the last of them is fed next.    *)
FaultyAppendStep ==
  /\ spec.pc = "append"
  /\ generated' = generated \o spec.fresh
  /\ spec' = [spec EXCEPT !.pc = "step", !.cur = spec.fresh,
       !.total = @ + Len(spec.fresh),
       !.finished = @ \cup {r \in Rows : \E i \in DOMAIN spec.fresh :
                                            spec.fresh[i][r] = Eos}]
  /\ UNCHANGED <<past, rejected>>
AppendStep ==
  /\ spec.pc = "append"
  /\ generated' = generated \o spec.fresh
  /\ spec' = [spec EXCEPT !.pc = "step", !.cur = <<Last(spec.fresh)>>,
       !.total = @ + Len(spec.fresh),
       !.finished = @ \cup {r \in Rows : \E i \in DOMAIN spec.fresh :
                                            spec.fresh[i][r] = Eos}]
  /\ UNCHANGED <<past, rejected>>

SpecEnd ==
  /\ spec.pc = "step"
  /\ spec.total >= MaxNewTokens \/ spec.finished = Rows
  /\ spec' = [spec EXCEPT !.pc = "off"]
  /\ UNCHANGED <<generated, past, rejected>>

-----------------------------------------------------------------------------
(* generate_step *)

(* _draft_generate, one turn of its loop: the draft model reads cur_input  *)
(* first and its own last token after that.                                *)
Draft(column) ==
  LET fed == IF spec.drafts = << >> THEN spec.cur ELSE <<Last(spec.drafts)>>
  IN  /\ spec.pc = "draft"
      /\ past' = [past EXCEPT !.draft = @ \o fed]
      /\ spec' = [spec EXCEPT !.drafts = Append(@, column),
           !.pc = IF Len(spec.drafts) + 1 < DraftLen THEN "draft" ELSE "verify"]
      /\ UNCHANGED <<generated, rejected>>

(* The target model reads cur_input and all drafts at once.  Its logits    *)
(* judge the drafts; without a draft model its choice is the token.        *)
Verify ==
  /\ spec.pc = "verify" /\ spec.hasDraft
  /\ past' = [past EXCEPT !.target = @ \o spec.cur \o spec.drafts]
  /\ spec' = [spec EXCEPT !.pc = "judge"]
  /\ UNCHANGED <<generated, rejected>>

StandardStep(column) ==
  /\ spec.pc = "verify" /\ ~ spec.hasDraft
  /\ past' = [past EXCEPT !.target = @ \o spec.cur]
  /\ spec' = [spec EXCEPT !.pc = "append", !.fresh = <<column>>]
  /\ UNCHANGED <<generated, rejected>>

(* _rejection_sample, one turn of its loop.                                *)
Candidate == spec.drafts[Len(spec.fresh) + 1]

Accept ==
  /\ spec.pc = "judge"
  /\ Len(spec.fresh) < Len(spec.drafts)
  /\ spec' = [spec EXCEPT !.fresh = Append(@, Candidate)]
  /\ UNCHANGED <<generated, past, rejected>>

FaultyReject(column) ==
  /\ spec.pc = "judge"
  /\ Len(spec.fresh) < Len(spec.drafts)
  /\ column # Candidate
  /\ spec' = [spec EXCEPT !.fresh = Append(@, column)]
  /\ rejected' = TRUE
  /\ UNCHANGED <<generated, past>>
(* Rows that accept keep the draft's token, those that reject another one. *)
Reject(column) ==
  /\ spec.pc = "judge"
  /\ Len(spec.fresh) < Len(spec.drafts)
  /\ column # Candidate
  /\ spec' = [spec EXCEPT !.pc = "append", !.fresh = Append(@, column)]
  /\ rejected' = TRUE
  /\ UNCHANGED <<generated, past>>

Bonus(column) ==
  /\ spec.pc = "judge"
  /\ Len(spec.fresh) = Len(spec.drafts)
  /\ spec' = [spec EXCEPT !.pc = "append", !.fresh = Append(@, column)]
  /\ UNCHANGED <<generated, past, rejected>>

SpecStep ==
  \/ EnterStep \/ AppendStep \/ Verify \/ Accept
  \/ \E column \in Columns :
       Draft(column) \/ StandardStep(column) \/ Reject(column) \/ Bonus(column)

-----------------------------------------------------------------------------
(* Properties *)

SpecTypeOK ==
  /\ spec \in SpecStates
  /\ generated \in Seq(Columns \cup {Prompt})
  /\ past \in [target : Seq(Columns \cup {Prompt}), draft : Seq(Columns \cup {Prompt})]
  /\ rejected \in BOOLEAN

AtStep == spec.pc \in {"step", "draft"} \/ (spec.pc = "verify" /\ ~ spec.hasDraft)

(* "The output distribution is identical to greedy/sampling from the       *)
(* target model alone" (speculative.py:16-17): what the target has been    *)
(* fed and is going to be fed is the sequence generated so far, whenever   *)
(* it is about to judge how that sequence goes on.                         *)
TargetReadsOutput == AtStep => past.target \o spec.cur = generated

(* It is while no token was rejected: positions of accepted drafts are     *)
(* reused and the bonus token is fed once (speculative.py:138-147,         *)
(* engine.py:416-425).                                                     *)
UnrejectedReadsOutput == ~ rejected => TargetReadsOutput

(* What is left of s once its elements were looked for in t, in order.     *)
Unmatched(s, t) ==
  FoldLeft(LAMBDA rest, x : IF rest # << >> /\ Head(rest) = x THEN Tail(rest) ELSE rest,
           s, t)

(* No token of the output is lost on the way to the target model: it has   *)
(* read all of them but the one it is fed next, in order, with the drafts  *)
(* that were rejected in between.                                          *)
TargetMissesNothing == AtStep => Unmatched(generated, past.target \o spec.cur) = << >>

(* The engine's books agree with the output: total_new counts the new      *)
(* columns, finished are the rows with an Eos among them, and no more than *)
(* DraftLen columns are produced beyond the limit (engine.py:411-428).     *)
BooksBalance ==
  spec.pc = "step" =>
    LET new == SubSeq(generated, PromptLen + 1, Len(generated))
    IN  /\ spec.total = Len(new)
        /\ spec.total <= MaxNewTokens + DraftLen
        /\ spec.finished = {r \in Rows : \E i \in DOMAIN new : new[i][r] = Eos}

=============================================================================
