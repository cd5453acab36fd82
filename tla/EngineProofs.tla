---------------------------- MODULE EngineProofs ----------------------------
(***************************************************************************)
(* Proofs about the engine as MCEngine composes it.  Of speculative        *)
(* decoding, for any batch, vocabulary, prompt, number of drafts and       *)
(* limit: what the target model has read, until a draft is rejected and    *)
(* after, and the counts of the loop.  Of the engines of one process: their patches,  *)
(* buffers and draft models.  Of the compressed cache: every layer sees    *)
(* the whole sequence, whatever the window and the growth of the storage.  *)
(***************************************************************************)
EXTENDS MCEngine, SlotOrderProofs, FiniteSetTheorems, SequenceTheorems, TLAPS

(* The steps of speculative decoding the composed system takes.            *)
Decodes == SpecStart \/ SpecStep \/ SpecEnd

(* The library's loop and the other parts leave the decoder alone.         *)
LEMMA OnlyDecoderMoves == [MCEngineNext]_mcVars => [Decodes]_specVars
BY DEF MCEngineNext, mcVars, engineVars, EngineNext, Generate, GenerateSpeculative, ForwardStep,
       UpdateStore, UpdateStatic, Raise, SampleNext, Stop, DecoderStep, Decodes

(* What a model can be fed.                                                *)
Fed == Columns \cup {Prompt}

(* In the order of a step, and while no draft was rejected: the target has *)
(* read the sequence but for what it is fed next; then the drafts on top   *)
(* of it; of these the first are accepted; and at last all of them, with   *)
(* one token the target has not read.                                      *)
TargetFollows ==
  /\ spec.pc \in {"step", "draft", "verify"} => past.target \o spec.cur = generated
  /\ spec.pc = "judge" =>
       /\ past.target = generated \o spec.drafts
       /\ Len(spec.fresh) <= Len(spec.drafts)
       /\ \A i \in 1 .. Len(spec.fresh) : spec.fresh[i] = spec.drafts[i]
  /\ spec.pc = "append" =>
       /\ past.target = generated \o spec.drafts
       /\ \E c \in Columns : spec.fresh = spec.drafts \o <<c>>

(* What holds with rejections too.                                         *)
StepInOrder ==
  /\ spec.pc \in {"draft", "verify"} => spec.fresh = << >>
  /\ spec.pc \in {"draft", "judge"} => spec.hasDraft
  /\ spec.pc = "verify" /\ ~spec.hasDraft => spec.drafts = << >>
  /\ spec.pc \in {"draft", "judge"} \/ (spec.pc = "verify" /\ spec.hasDraft) => Len(spec.drafts) <= DraftLen
  /\ spec.pc = "draft" => Len(spec.drafts) < DraftLen
  /\ spec.pc = "judge" => Len(spec.fresh) <= Len(spec.drafts)
  /\ spec.pc = "append" => spec.fresh # << >> /\ Len(spec.fresh) <= DraftLen + 1

(* The rows of a sequence that have ended behind the prompt.               *)
EndedIn(s) == {r \in Rows : \E i \in PromptLen + 1 .. Len(s) : s[i][r] = Eos}

(* What the loop counts, and how far a step may go beyond the limit.       *)
LoopCounts ==
  spec.pc # "off" =>
    /\ Len(generated) = PromptLen + spec.total
    /\ spec.finished = EndedIn(generated)
    /\ IF spec.pc = "step" THEN spec.total <= MaxNewTokens + DraftLen ELSE spec.total < MaxNewTokens

(* The invariant of the decoder.                                           *)
DecoderInv == SpecTypeOK /\ StepInOrder /\ LoopCounts /\ (~rejected => TargetFollows)

(* One more element behind a sequence and what follows it.                 *)
LEMMA JoinLast ==
  ASSUME NEW S, NEW s \in Seq(S), NEW t \in Seq(S), NEW x \in S
  PROVE  (s \o t) \o <<x>> = s \o (t \o <<x>>)
<1> DEFINE u == <<x>>
<1>1. u \in Seq(S)
  OBVIOUS
<1> HIDE DEF u
<1>2. (s \o t) \o u = s \o (t \o u)
  BY <1>1, ConcatAssociative
<1> QED
  BY <1>2 DEF u

(* The decoder starts outside of a request.                                *)
LEMMA DecoderStarts == SpecInit => DecoderInv
<1> SUFFICES ASSUME SpecInit PROVE DecoderInv
  OBVIOUS
<1>1. << >> \in Seq(Fed) /\ << >> \in Seq(Columns)
  OBVIOUS
<1>2. PICK h \in BOOLEAN : spec = Off(h)
  BY DEF SpecInit
<1>3. SpecTypeOK
  BY <1>1, <1>2 DEF SpecInit, Off, NoPast, SpecTypeOK, SpecStates, Fed
<1> QED
  BY <1>2, <1>3 DEF SpecInit, Off, DecoderInv, StepInOrder, LoopCounts, TargetFollows

(* Every step of the decoder keeps its invariant.                          *)
LEMMA DecoderKeeps ==
  ASSUME DecoderInv, [Decodes]_specVars
  PROVE  DecoderInv'
<1>1. /\ spec \in SpecStates /\ generated \in Seq(Fed) /\ rejected \in BOOLEAN
      /\ past \in [target : Seq(Fed), draft : Seq(Fed)]
      /\ StepInOrder /\ LoopCounts /\ (~rejected => TargetFollows)
  BY DEF DecoderInv, SpecTypeOK, Fed
<1>2. /\ spec.cur \in Seq(Fed) /\ spec.drafts \in Seq(Columns) /\ spec.fresh \in Seq(Columns)
      /\ spec.hasDraft \in BOOLEAN /\ spec.total \in Nat /\ spec.finished \subseteq Rows
      /\ past.target \in Seq(Fed) /\ past.draft \in Seq(Fed)
      /\ spec.drafts \in Seq(Fed) /\ spec.fresh \in Seq(Fed)
  <2>1. \A s \in Seq(Columns) : s \in Seq(Fed)
    BY DEF Fed
  <2> QED
    BY <1>1, <2>1 DEF SpecStates, Fed
<1>3. ASSUME spec' \in SpecStates, generated' \in Seq(Fed), rejected' \in BOOLEAN,
             past' \in [target : Seq(Fed), draft : Seq(Fed)]
      PROVE  SpecTypeOK'
  BY <1>3 DEF SpecTypeOK, SpecStates, Columns, Tokens, Prompt, Fed
<1>4. << >> \in Seq(Fed) /\ << >> \in Seq(Columns)
  OBVIOUS
<1>books. ASSUME UNCHANGED generated, spec'.total = spec.total, spec'.finished = spec.finished,
              spec.pc # "off", spec'.pc \notin {"off", "step"},
              spec.pc = "step" => spec.total < MaxNewTokens
       PROVE  LoopCounts'
  BY <1>1, <1>books DEF LoopCounts, EndedIn
<1>5. CASE SpecStart
  <2>1. Prompts \in Seq(Fed) /\ << >> \o Prompts = Prompts
    <3>1. \A i \in 1 .. PromptLen : Prompt \in Fed
      BY DEF Fed
    <3>2. PromptLen \in Nat
      BY SpeculativeAssumption
    <3>3. Prompts \in Seq(Fed)
      BY <3>1, <3>2, IsASeq DEF Prompts
    <3> QED
      BY <3>3, ConcatEmptySeq
  <2>2. spec' = [Off(spec.hasDraft) EXCEPT !.pc = "step", !.cur = Prompts] /\ generated' = Prompts
        /\ past' = NoPast /\ rejected' = FALSE
    BY <1>5 DEF SpecStart
  <2> HIDE DEF Prompts
  <2>3. SpecTypeOK'
    BY <1>2, <1>3, <1>4, <2>1, <2>2 DEF Off, NoPast, SpecStates, Fed
  <2>4. spec'.pc = "step" /\ spec'.cur = Prompts /\ past'.target = << >>
        /\ spec'.total = 0 /\ spec'.finished = {}
    BY <2>2 DEF Off, NoPast
  <2>5. LoopCounts'
    <3>1. Len(Prompts) = PromptLen /\ PromptLen \in Nat /\ DraftLen \in Nat /\ MaxNewTokens \in Nat
      <4>1. DOMAIN Prompts = 1 .. PromptLen /\ PromptLen \in Nat
        BY SpeculativeAssumption DEF Prompts
      <4> QED
        BY <2>1, <4>1, LenProperties, SpeculativeAssumption
    <3>2. EndedIn(Prompts) = {}
      BY <3>1 DEF EndedIn
    <3>3. EndedIn(generated)' = EndedIn(Prompts)
      BY <2>2 DEF EndedIn
    <3> QED
      BY <2>2, <2>4, <3>1, <3>2, <3>3 DEF LoopCounts
  <2> QED
    BY <2>1, <2>2, <2>3, <2>4, <2>5 DEF DecoderInv, StepInOrder, TargetFollows
<1>6. CASE EnterStep \/ SpecEnd
  <2>1. SpecTypeOK'
    BY <1>1, <1>3, <1>4, <1>6 DEF EnterStep, SpecEnd, SpecStates
  <2>2. StepInOrder'
    <3>1. DraftLen \in Nat \ {0} /\ Len(<< >>) = 0 /\ 0 < DraftLen
      BY SpeculativeAssumption
    <3>2. CASE EnterStep
      <4>1. /\ spec'.pc = IF spec.hasDraft THEN "draft" ELSE "verify"
            /\ spec'.hasDraft = spec.hasDraft /\ spec'.drafts = << >> /\ spec'.fresh = << >>
        BY <1>1, <3>2 DEF EnterStep, SpecStates
      <4> QED
        BY <3>1, <4>1 DEF StepInOrder
    <3>3. CASE SpecEnd
      <4>1. spec'.pc = "off"
        BY <1>1, <3>3 DEF SpecEnd, SpecStates
      <4> QED
        BY <4>1 DEF StepInOrder
    <3> QED
      BY <1>6, <3>2, <3>3
  <2>3. ~rejected' => TargetFollows'
    BY <1>1, <1>6 DEF EnterStep, SpecEnd, SpecStates, TargetFollows
  <2>4. LoopCounts'
    <3>1. CASE EnterStep
      <4>1. /\ spec.pc = "step" /\ spec'.pc \in {"draft", "verify"} /\ generated' = generated
            /\ spec'.total = spec.total /\ spec'.finished = spec.finished /\ spec.total < MaxNewTokens
        BY <1>1, <3>1 DEF EnterStep, SpecStates
      <4> QED
        BY <1>books, <4>1
    <3>2. CASE SpecEnd
      BY <1>1, <3>2 DEF SpecEnd, SpecStates, LoopCounts
    <3> QED
      BY <1>6, <3>1, <3>2
  <2> QED
    BY <2>1, <2>2, <2>3, <2>4 DEF DecoderInv
<1>7. CASE AppendStep
  <2>1. /\ spec.pc = "append" /\ generated' = generated \o spec.fresh /\ UNCHANGED <<past, rejected>>
        /\ spec' = [spec EXCEPT !.pc = "step", !.cur = <<Last(spec.fresh)>>,
             !.total = @ + Len(spec.fresh),
             !.finished = @ \cup {r \in Rows : \E i \in DOMAIN spec.fresh : spec.fresh[i][r] = Eos}]
    BY <1>7 DEF AppendStep
  <2>2. Last(spec.fresh) \in Columns /\ Len(spec.fresh) \in Nat
    <3>1. spec.fresh # << >>
      BY <1>1, <2>1 DEF StepInOrder
    <3>2. Len(spec.fresh) \in Nat /\ Len(spec.fresh) # 0
      BY <1>2, <3>1, EmptySeq, LenProperties
    <3>3. Len(spec.fresh) \in 1 .. Len(spec.fresh)
      BY <3>2
    <3> QED
      BY <1>2, <3>2, <3>3, ElementOfSeq DEF Last
  <2>3. <<Last(spec.fresh)>> \in Seq(Fed)
    BY <2>2 DEF Fed
  <2>4. SpecTypeOK'
    <3>1. generated' \in Seq(Fed)
      BY <1>1, <1>2, <2>1, ConcatProperties
    <3>2. spec' \in SpecStates
      <4>1. /\ spec.total + Len(spec.fresh) \in Nat
            /\ spec.finished \cup {r \in Rows : \E i \in DOMAIN spec.fresh : spec.fresh[i][r] = Eos} \subseteq Rows
        BY <1>2, <2>2
      <4> QED
        BY <1>1, <2>1, <2>3, <4>1 DEF SpecStates, Fed
    <3> QED
      BY <1>1, <1>3, <2>1, <3>1, <3>2
  <2>5. spec'.pc = "step" /\ spec'.cur = <<Last(spec.fresh)>>
    BY <1>1, <2>1 DEF SpecStates
  <2>6. ASSUME ~rejected PROVE past.target \o <<Last(spec.fresh)>> = generated \o spec.fresh
    <3>1. PICK c \in Columns : spec.fresh = spec.drafts \o <<c>>
      BY <1>1, <2>1, <2>6 DEF TargetFollows
    <3>2. <<c>> \in Seq(Fed) /\ <<c>> \in Seq(Columns) /\ Len(<<c>>) = 1 /\ <<c>>[1] = c
      BY DEF Fed
    <3>3. Last(spec.fresh) = c
      <4>1. Len(spec.drafts) \in Nat
        BY <1>2, LenProperties
      <4>2. /\ Len(spec.fresh) = Len(spec.drafts) + 1
            /\ \A i \in 1 .. Len(spec.drafts) + 1 : spec.fresh[i] =
                 IF i <= Len(spec.drafts) THEN spec.drafts[i] ELSE <<c>>[i - Len(spec.drafts)]
        BY <1>2, <3>1, <3>2, ConcatProperties
      <4> QED
        BY <3>2, <4>1, <4>2 DEF Last
    <3>4. past.target = generated \o spec.drafts
      BY <1>1, <2>1, <2>6 DEF TargetFollows
    <3>5. (generated \o spec.drafts) \o <<c>> = generated \o (spec.drafts \o <<c>>)
      <4>1. generated \in Seq(Fed) /\ spec.drafts \in Seq(Fed) /\ c \in Fed
        BY <1>1, <1>2 DEF Fed
      <4>2. \A s, t \in Seq(Fed) : (s \o t) \o <<c>> = s \o (t \o <<c>>)
        BY <4>1, JoinLast
      <4> QED
        BY <4>1, <4>2
    <3> QED
      BY <3>1, <3>3, <3>4, <3>5
  <2>7. LoopCounts'
    <3>1. /\ Len(generated) = PromptLen + spec.total /\ spec.finished = EndedIn(generated)
          /\ spec.total < MaxNewTokens /\ Len(spec.fresh) <= DraftLen + 1
      BY <1>1, <2>1 DEF LoopCounts, StepInOrder
    <3>2. PromptLen \in Nat /\ DraftLen \in Nat /\ MaxNewTokens \in Nat /\ Len(generated) \in Nat
      BY <1>1, SpeculativeAssumption, LenProperties
    <3>3. /\ Len(generated') = Len(generated) + Len(spec.fresh)
          /\ \A i \in 1 .. Len(generated) + Len(spec.fresh) : generated'[i] =
               IF i <= Len(generated) THEN generated[i] ELSE spec.fresh[i - Len(generated)]
      BY <1>1, <1>2, <2>1, ConcatProperties
    <3> DEFINE new == {r \in Rows : \E i \in DOMAIN spec.fresh : spec.fresh[i][r] = Eos}
    <3>4. spec'.total = spec.total + Len(spec.fresh) /\ spec'.finished = spec.finished \cup new
      BY <1>1, <2>1 DEF SpecStates
    <3>5. DOMAIN spec.fresh = 1 .. Len(spec.fresh)
      BY <1>2, LenProperties
    <3>6. ASSUME NEW r \in Rows PROVE r \in EndedIn(generated)' <=> r \in EndedIn(generated) \cup new
      <4>1. ASSUME NEW i \in PromptLen + 1 .. Len(generated'), generated'[i][r] = Eos
            PROVE  r \in EndedIn(generated) \cup new
        <5>1. CASE i <= Len(generated)
          <6>1. i \in PromptLen + 1 .. Len(generated) /\ i \in 1 .. Len(generated) + Len(spec.fresh)
            BY <2>2, <3>2, <3>3, <4>1, <5>1
          <6> QED
            BY <3>3, <4>1, <5>1, <6>1 DEF EndedIn
        <5>2. CASE ~(i <= Len(generated))
          <6>1. i - Len(generated) \in 1 .. Len(spec.fresh) /\ i \in 1 .. Len(generated) + Len(spec.fresh)
            BY <2>2, <3>2, <3>3, <4>1, <5>2
          <6>2. spec.fresh[i - Len(generated)][r] = Eos
            BY <3>3, <4>1, <5>2, <6>1
          <6> QED
            BY <3>5, <6>1, <6>2
        <5> QED
          BY <5>1, <5>2
      <4>2. ASSUME NEW i \in PromptLen + 1 .. Len(generated), generated[i][r] = Eos
            PROVE  r \in EndedIn(generated)'
        <5>1. i \in PromptLen + 1 .. Len(generated') /\ generated'[i][r] = Eos
          BY <2>2, <3>2, <3>3, <4>2
        <5> QED
          BY <5>1 DEF EndedIn
      <4>3. ASSUME NEW i \in 1 .. Len(spec.fresh), spec.fresh[i][r] = Eos
            PROVE  r \in EndedIn(generated)'
        <5> DEFINE j == Len(generated) + i
        <5>1. j \in PromptLen + 1 .. Len(generated') /\ j \in 1 .. Len(generated) + Len(spec.fresh)
          <6>1. Len(generated) >= PromptLen
            BY <1>2, <3>1, <3>2
          <6> QED
            BY <2>2, <3>2, <3>3, <6>1
        <5>2. generated'[j] = spec.fresh[i]
          <6>1. ~(j <= Len(generated)) /\ j - Len(generated) = i
            BY <2>2, <3>2
          <6> HIDE DEF j
          <6> QED
            BY <3>3, <5>1, <6>1
        <5> QED
          BY <4>3, <5>1, <5>2 DEF EndedIn
      <4> QED
        BY <3>5, <4>1, <4>2, <4>3 DEF EndedIn
    <3>7. EndedIn(generated)' = EndedIn(generated) \cup new
      BY <3>6 DEF EndedIn
    <3>8. Len(generated') = PromptLen + spec'.total /\ spec'.total <= MaxNewTokens + DraftLen
      BY <1>2, <2>2, <3>1, <3>2, <3>3, <3>4
    <3> QED
      BY <2>5, <3>1, <3>4, <3>7, <3>8 DEF LoopCounts
  <2> QED
    BY <2>1, <2>4, <2>5, <2>6, <2>7 DEF DecoderInv, StepInOrder, TargetFollows
<1>8. ASSUME NEW column \in Columns, Draft(column) PROVE DecoderInv'
  <2> DEFINE fed == IF spec.drafts = << >> THEN spec.cur ELSE <<Last(spec.drafts)>>
  <2>1. /\ spec.pc = "draft" /\ past' = [past EXCEPT !.draft = @ \o fed]
        /\ spec' = [spec EXCEPT !.drafts = Append(@, column),
             !.pc = IF Len(spec.drafts) + 1 < DraftLen THEN "draft" ELSE "verify"]
        /\ UNCHANGED <<generated, rejected>>
    BY <1>8 DEF Draft
  <2>2. fed \in Seq(Fed)
    <3>1. CASE spec.drafts = << >>
      BY <1>2, <3>1
    <3>2. CASE spec.drafts # << >>
      <4>1. Last(spec.drafts) \in Fed
        BY <1>2, <3>2, EmptySeq, LenProperties, ElementOfSeq DEF Last
      <4> QED
        BY <3>2, <4>1
    <3> QED
      BY <3>1, <3>2
  <2> HIDE DEF fed
  <2>3. /\ Append(spec.drafts, column) \in Seq(Columns) /\ Len(spec.drafts) \in Nat
        /\ Len(Append(spec.drafts, column)) = Len(spec.drafts) + 1
    BY <1>2, AppendProperties, LenProperties
  <2>4. SpecTypeOK'
    <3>1. past.draft \o fed \in Seq(Fed)
      BY <1>2, <2>2, ConcatProperties
    <3> QED
      BY <1>1, <1>3, <2>1, <2>3, <3>1 DEF SpecStates
  <2>5. /\ spec'.pc = IF Len(spec.drafts) + 1 < DraftLen THEN "draft" ELSE "verify"
        /\ spec'.cur = spec.cur /\ spec'.fresh = spec.fresh /\ spec'.hasDraft = spec.hasDraft
        /\ spec'.drafts = Append(spec.drafts, column)
        /\ past'.target = past.target
    BY <1>1, <2>1 DEF SpecStates
  <2>6. StepInOrder'
    <3>1. Len(spec.drafts) < DraftLen /\ DraftLen \in Nat
      BY <1>1, <2>1, SpeculativeAssumption DEF StepInOrder
    <3> QED
      BY <1>1, <2>1, <2>3, <2>5, <3>1 DEF StepInOrder
  <2>7. ~rejected' => TargetFollows'
    BY <1>1, <2>1, <2>5 DEF TargetFollows
  <2>books. LoopCounts'
    <3>1. /\ spec.pc \notin {"off", "step"} /\ spec'.pc \notin {"off", "step"} /\ generated' = generated
          /\ spec'.total = spec.total /\ spec'.finished = spec.finished
      BY <1>1, <2>1 DEF SpecStates
    <3> QED
      BY <1>books, <3>1
  <2> QED
    BY <2>4, <2>6, <2>7, <2>books DEF DecoderInv
<1>9. CASE Verify
  <2>1. /\ spec.pc = "verify" /\ spec.hasDraft /\ UNCHANGED <<generated, rejected>>
        /\ past' = [past EXCEPT !.target = @ \o spec.cur \o spec.drafts]
        /\ spec' = [spec EXCEPT !.pc = "judge"]
    BY <1>9 DEF Verify
  <2>2. past.target \o spec.cur \in Seq(Fed) /\ (past.target \o spec.cur) \o spec.drafts \in Seq(Fed)
    BY <1>2, ConcatProperties
  <2>3. SpecTypeOK'
    BY <1>1, <1>3, <2>1, <2>2 DEF SpecStates
  <2>4. /\ spec'.pc = "judge" /\ spec'.cur = spec.cur /\ spec'.fresh = << >> /\ spec'.hasDraft
        /\ spec'.drafts = spec.drafts /\ past'.target = (past.target \o spec.cur) \o spec.drafts
    BY <1>1, <2>1 DEF SpecStates, StepInOrder
  <2>5. StepInOrder'
    <3>1. Len(<< >>) = 0 /\ Len(spec.drafts) \in Nat
      BY <1>2, LenProperties
    <3>2. Len(spec.drafts) <= DraftLen
      BY <1>1, <2>1 DEF StepInOrder
    <3> QED
      BY <2>4, <3>1, <3>2 DEF StepInOrder
  <2>6. ~rejected' => TargetFollows'
    <3>1. Len(<< >>) = 0 /\ Len(spec.drafts) \in Nat
      BY <1>2, LenProperties
    <3>2. ~rejected => past.target \o spec.cur = generated
      BY <1>1, <2>1 DEF TargetFollows
    <3>3. Len(<< >>) <= Len(spec.drafts) /\ \A i \in 1 .. Len(<< >>) : << >>[i] = spec.drafts[i]
      BY <3>1
    <3> QED
      BY <2>1, <2>4, <3>2, <3>3 DEF TargetFollows
  <2>books. LoopCounts'
    <3>1. /\ spec.pc \notin {"off", "step"} /\ spec'.pc \notin {"off", "step"} /\ generated' = generated
          /\ spec'.total = spec.total /\ spec'.finished = spec.finished
      BY <1>1, <2>1 DEF SpecStates
    <3> QED
      BY <1>books, <3>1
  <2> QED
    BY <2>3, <2>5, <2>6, <2>books DEF DecoderInv
<1>10. ASSUME NEW column \in Columns, StandardStep(column) PROVE DecoderInv'
  <2>1. /\ spec.pc = "verify" /\ ~spec.hasDraft /\ UNCHANGED <<generated, rejected>>
        /\ past' = [past EXCEPT !.target = @ \o spec.cur]
        /\ spec' = [spec EXCEPT !.pc = "append", !.fresh = <<column>>]
    BY <1>10 DEF StandardStep
  <2>2. past.target \o spec.cur \in Seq(Fed) /\ <<column>> \in Seq(Columns) /\ <<column>> # << >>
    BY <1>2, ConcatProperties
  <2>3. SpecTypeOK'
    BY <1>1, <1>3, <2>1, <2>2 DEF SpecStates
  <2>4. /\ spec'.pc = "append" /\ spec'.fresh = <<column>> /\ ~spec'.hasDraft
        /\ spec'.drafts = << >> /\ past'.target = past.target \o spec.cur
    BY <1>1, <2>1 DEF SpecStates, StepInOrder
  <2>5. StepInOrder'
    <3>1. Len(<<column>>) = 1 /\ DraftLen \in Nat
      BY SpeculativeAssumption
    <3> QED
      BY <2>2, <2>4, <3>1 DEF StepInOrder
  <2>6. ~rejected' => TargetFollows'
    <3>1. generated \o << >> = generated /\ << >> \o <<column>> = <<column>>
      BY <1>1, <2>2, ConcatEmptySeq
    <3> QED
      BY <1>1, <2>1, <2>4, <3>1 DEF TargetFollows
  <2>books. LoopCounts'
    <3>1. /\ spec.pc \notin {"off", "step"} /\ spec'.pc \notin {"off", "step"} /\ generated' = generated
          /\ spec'.total = spec.total /\ spec'.finished = spec.finished
      BY <1>1, <2>1 DEF SpecStates
    <3> QED
      BY <1>books, <3>1
  <2> QED
    BY <2>3, <2>5, <2>6, <2>books DEF DecoderInv
<1>11. CASE Accept
  <2>1. /\ spec.pc = "judge" /\ Len(spec.fresh) < Len(spec.drafts) /\ UNCHANGED <<generated, past, rejected>>
        /\ spec' = [spec EXCEPT !.fresh = Append(@, spec.drafts[Len(spec.fresh) + 1])]
    BY <1>11 DEF Accept, Candidate
  <2>2. Len(spec.fresh) \in Nat /\ Len(spec.drafts) \in Nat
    BY <1>2, LenProperties
  <2>3. spec.drafts[Len(spec.fresh) + 1] \in Columns
    <3>1. Len(spec.fresh) + 1 \in 1 .. Len(spec.drafts)
      BY <2>1, <2>2
    <3> QED
      BY <1>2, <3>1, ElementOfSeq
  <2> DEFINE c == spec.drafts[Len(spec.fresh) + 1]
  <2>4. /\ Append(spec.fresh, c) \in Seq(Columns) /\ Len(Append(spec.fresh, c)) = Len(spec.fresh) + 1
        /\ \A i \in 1 .. Len(spec.fresh) : Append(spec.fresh, c)[i] = spec.fresh[i]
        /\ Append(spec.fresh, c)[Len(spec.fresh) + 1] = c
    BY <1>2, <2>3, AppendProperties
  <2>5. SpecTypeOK'
    BY <1>1, <1>3, <2>1, <2>4 DEF SpecStates
  <2>6. /\ spec'.pc = "judge" /\ spec'.cur = spec.cur /\ spec'.hasDraft = spec.hasDraft
        /\ spec'.drafts = spec.drafts /\ spec'.fresh = Append(spec.fresh, c)
    BY <1>1, <2>1 DEF SpecStates
  <2>7. StepInOrder'
    <3>1. Len(Append(spec.fresh, c)) <= Len(spec.drafts) /\ spec.hasDraft /\ Len(spec.drafts) <= DraftLen
      BY <1>1, <2>1, <2>2, <2>4 DEF StepInOrder
    <3> HIDE DEF c
    <3> QED
      BY <2>6, <3>1 DEF StepInOrder
  <2>8. ASSUME ~rejected' PROVE TargetFollows'
    <3>1. /\ past.target = generated \o spec.drafts
          /\ \A i \in 1 .. Len(spec.fresh) : spec.fresh[i] = spec.drafts[i]
      BY <1>1, <2>1, <2>8 DEF TargetFollows
    <3>2. \A i \in 1 .. Len(spec.fresh) + 1 : Append(spec.fresh, c)[i] = spec.drafts[i]
      BY <2>2, <2>4, <3>1
    <3>3. Len(Append(spec.fresh, c)) <= Len(spec.drafts)
      BY <2>1, <2>2, <2>4
    <3>4. \A i \in 1 .. Len(Append(spec.fresh, c)) : Append(spec.fresh, c)[i] = spec.drafts[i]
      BY <2>4, <3>2
    <3> HIDE DEF c
    <3> QED
      BY <2>1, <2>6, <3>1, <3>3, <3>4 DEF TargetFollows
  <2>books. LoopCounts'
    <3>1. /\ spec.pc \notin {"off", "step"} /\ spec'.pc \notin {"off", "step"} /\ generated' = generated
          /\ spec'.total = spec.total /\ spec'.finished = spec.finished
      BY <1>1, <2>1 DEF SpecStates
    <3> QED
      BY <1>books, <3>1
  <2> QED
    BY <2>5, <2>7, <2>8, <2>books DEF DecoderInv
<1>12. ASSUME NEW column \in Columns, Reject(column) \/ Bonus(column) PROVE DecoderInv'
  <2>1. /\ spec.pc = "judge" /\ UNCHANGED <<generated, past>>
        /\ spec' = [spec EXCEPT !.pc = "append", !.fresh = Append(@, column)]
        /\ rejected' \in BOOLEAN /\ (~rejected' => ~rejected /\ Len(spec.fresh) = Len(spec.drafts))
    BY <1>1, <1>12 DEF Reject, Bonus
  <2>2. /\ Append(spec.fresh, column) \in Seq(Columns) /\ Len(Append(spec.fresh, column)) = Len(spec.fresh) + 1
        /\ Len(spec.fresh) \in Nat
    BY <1>2, AppendProperties, LenProperties
  <2>3. SpecTypeOK'
    BY <1>1, <1>3, <2>1, <2>2 DEF SpecStates
  <2>4. spec'.pc = "append" /\ spec'.fresh = Append(spec.fresh, column) /\ spec'.drafts = spec.drafts
    BY <1>1, <2>1 DEF SpecStates
  <2>5. StepInOrder'
    <3>1. Append(spec.fresh, column) # << >>
      BY <2>2
    <3>2. Len(spec.fresh) <= Len(spec.drafts) /\ Len(spec.drafts) <= DraftLen
      BY <1>1, <2>1 DEF StepInOrder
    <3>3. Len(Append(spec.fresh, column)) <= DraftLen + 1
      <4>1. DraftLen \in Nat /\ Len(spec.drafts) \in Nat
        BY <1>2, SpeculativeAssumption, LenProperties
      <4> QED
        BY <2>2, <3>2, <4>1
    <3> QED
      BY <2>4, <3>1, <3>3 DEF StepInOrder
  <2>6. ASSUME ~rejected' PROVE TargetFollows'
    <3>1. past.target = generated \o spec.drafts /\ spec.fresh = spec.drafts
      <4>1. /\ past.target = generated \o spec.drafts /\ Len(spec.fresh) = Len(spec.drafts)
            /\ \A i \in 1 .. Len(spec.fresh) : spec.fresh[i] = spec.drafts[i]
        BY <1>1, <2>1, <2>6 DEF TargetFollows
      <4> QED
        BY <1>2, <4>1, SeqEqual
    <3>2. Append(spec.fresh, column) = spec.drafts \o <<column>>
      BY <1>2, <3>1, AppendIsConcat
    <3> QED
      BY <2>1, <2>4, <3>1, <3>2 DEF TargetFollows
  <2>books. LoopCounts'
    <3>1. /\ spec.pc \notin {"off", "step"} /\ spec'.pc \notin {"off", "step"} /\ generated' = generated
          /\ spec'.total = spec.total /\ spec'.finished = spec.finished
      BY <1>1, <2>1 DEF SpecStates
    <3> QED
      BY <1>books, <3>1
  <2> QED
    BY <2>3, <2>5, <2>6, <2>books DEF DecoderInv
<1>13. CASE UNCHANGED specVars
  BY <1>1, <1>13 DEF specVars, DecoderInv, SpecTypeOK, StepInOrder, LoopCounts, EndedIn, TargetFollows
<1> QED
  BY <1>5, <1>6, <1>7, <1>8, <1>9, <1>10, <1>11, <1>12, <1>13 DEF Decodes, SpecStep

(* The invariant holds in every reachable state.                           *)
LEMMA DecoderInvariance == MCEngineSpec => []DecoderInv
<1>1. MCEngineInit => DecoderInv
  BY DecoderStarts DEF MCEngineInit, EngineInit
<1>2. DecoderInv /\ [MCEngineNext]_mcVars => DecoderInv'
  BY OnlyDecoderMoves, DecoderKeeps
<1> QED
  BY <1>1, <1>2, PTL DEF MCEngineSpec

(* Until a draft of the request is rejected, the target model has read the *)
(* output, in order and once, when it is about to judge how it goes on     *)
(* (speculative.py:138-147, engine.py:416-425): for any number of drafts   *)
(* and rows, with a draft model or without.                                *)
THEOREM AlwaysUnrejectedReads == MCEngineSpec => []UnrejectedReadsOutput
<1>1. DecoderInv => UnrejectedReadsOutput
  BY DEF DecoderInv, TargetFollows, UnrejectedReadsOutput, TargetReadsOutput, AtStep
<1> QED
  BY <1>1, DecoderInvariance, PTL

(* Even after rejections, the decoder is well typed, total_new counts the  *)
(* new columns, finished are the rows with an Eos among them, and no more  *)
(* than DraftLen columns go beyond the limit (engine.py:411-428).          *)
THEOREM BooksAlwaysBalance == MCEngineSpec => [](SpecTypeOK /\ BooksBalance)
<1>1. DecoderInv => BooksBalance
  <2> SUFFICES ASSUME DecoderInv, spec.pc = "step"
               PROVE  LET new == SubSeq(generated, PromptLen + 1, Len(generated))
                      IN  /\ spec.total = Len(new)
                          /\ spec.total <= MaxNewTokens + DraftLen
                          /\ spec.finished = {r \in Rows : \E i \in DOMAIN new : new[i][r] = Eos}
    BY DEF BooksBalance
  <2> DEFINE new == SubSeq(generated, PromptLen + 1, Len(generated))
  <2>1. /\ generated \in Seq(Fed) /\ spec.total \in Nat /\ PromptLen \in Nat
        /\ Len(generated) = PromptLen + spec.total /\ spec.finished = EndedIn(generated)
        /\ spec.total <= MaxNewTokens + DraftLen
    BY SpeculativeAssumption DEF DecoderInv, SpecTypeOK, SpecStates, LoopCounts, Fed
  <2>2. /\ Len(new) = spec.total /\ DOMAIN new = 1 .. spec.total
        /\ \A i \in 1 .. spec.total : new[i] = generated[PromptLen + i]
    <3> DEFINE j == PromptLen + 1
               k == Len(generated)
    <3>1. /\ j \in Int /\ k \in Int /\ k - j + 1 = spec.total /\ (j <= k <=> spec.total > 0)
          /\ \A i \in 1 .. spec.total : j + i - 1 = PromptLen + i
      BY <2>1
    <3>2. \A i \in j .. k : generated[i] \in Fed
      BY <2>1, ElementOfSeq
    <3>3. new = SubSeq(generated, j, k)
      OBVIOUS
    <3> HIDE DEF j, k, new
    <3>4. /\ new \in Seq(Fed) /\ Len(new) = IF j <= k THEN k - j + 1 ELSE 0
          /\ \A i \in 1 .. k - j + 1 : new[i] = generated[j + i - 1]
      BY <3>1, <3>2, <3>3, SubSeqProperties
    <3>5. Len(new) = spec.total /\ DOMAIN new = 1 .. spec.total
      BY <2>1, <3>1, <3>4, LenProperties
    <3> QED
      BY <3>1, <3>4, <3>5
  <2> HIDE DEF new
  <2>3. ASSUME NEW r \in Rows
        PROVE  r \in EndedIn(generated) <=> \E i \in DOMAIN new : new[i][r] = Eos
    <3>1. ASSUME NEW i \in PromptLen + 1 .. Len(generated), generated[i][r] = Eos
          PROVE  \E j \in DOMAIN new : new[j][r] = Eos
      <4>1. i - PromptLen \in 1 .. spec.total /\ PromptLen + (i - PromptLen) = i
        BY <2>1
      <4> QED
        BY <2>2, <3>1, <4>1
    <3>2. ASSUME NEW i \in DOMAIN new, new[i][r] = Eos PROVE r \in EndedIn(generated)
      <4>1. PromptLen + i \in PromptLen + 1 .. Len(generated) /\ generated[PromptLen + i][r] = Eos
        BY <2>1, <2>2, <3>2
      <4> QED
        BY <4>1 DEF EndedIn
    <3> QED
      BY <3>1, <3>2 DEF EndedIn
  <2>4. spec.finished = {r \in Rows : \E i \in DOMAIN new : new[i][r] = Eos}
    BY <2>1, <2>3 DEF EndedIn
  <2> QED
    BY <2>1, <2>2, <2>4 DEF new
<1> QED
  BY <1>1, DecoderInvariance, PTL DEF DecoderInv

(* A search for the elements of s: what is left of them after one more of  *)
(* the elements searched.                                                  *)
Searched(rest, x) == IF rest # << >> /\ Head(rest) = x THEN Tail(rest) ELSE rest

LEMMA SearchedType ==
  ASSUME NEW S, NEW rest \in Seq(S), NEW x
  PROVE  /\ Searched(rest, x) \in Seq(S)
         /\ rest # << >> /\ rest[1] = x =>
              /\ Len(Searched(rest, x)) = Len(rest) - 1
              /\ \A i \in 1 .. Len(rest) - 1 : Searched(rest, x)[i] = rest[i + 1]
         /\ ~(rest # << >> /\ rest[1] = x) => Searched(rest, x) = rest
<1>1. CASE rest # << >>
  <2>1. /\ Tail(rest) \in Seq(S) /\ Len(Tail(rest)) = Len(rest) - 1
        /\ \A i \in 1 .. Len(Tail(rest)) : Tail(rest)[i] = rest[i + 1]
        /\ Head(rest) = rest[1]
    BY <1>1, HeadTailProperties
  <2> QED
    BY <1>1, <2>1 DEF Searched
<1>2. CASE rest = << >>
  BY <1>2 DEF Searched
<1> QED
  BY <1>1, <1>2

(* What is left at the end is the last of them.                            *)
LEMMA SearchRuns ==
  ASSUME NEW S, NEW s \in Seq(S), NEW t \in Seq(S)
  PROVE  \E r : /\ r[0] = s /\ Unmatched(s, t) = r[Len(t)]
                /\ \A k \in 0 .. Len(t) : r[k] \in Seq(S)
                /\ \A k \in 1 .. Len(t) : r[k] = Searched(r[k - 1], t[k])
<1> DEFINE n == Len(t)
           step == [x \in (1 .. n) \X Seq(S) |-> Searched(x[2], t[x[1]])]
           Next(g) == [T \in SUBSET DOMAIN t |-> IF T = {} THEN s ELSE
             IF g[T \ {Max(T)}] # << >> /\ Head(g[T \ {Max(T)}]) = t[Max(T)] THEN Tail(g[T \ {Max(T)}]) ELSE g[T \ {Max(T)}]]
           table == CHOOSE g : g = Next(g)
           r == [k \in 0 .. n |-> table[1 .. k]]
<1>1. n \in Nat /\ DOMAIN t = 1 .. n /\ \A k \in 1 .. n : t[k] \in S
  BY LenProperties, ElementOfSeq
<1>2. Unmatched(s, t) = table[1 .. n]
  BY <1>1 DEF Unmatched, FoldLeft, MapThenFoldSet
<1> HIDE DEF n
<1>3. Advances(step, 1 .. n, Seq(S))
  BY <1>1, SearchedType DEF Advances
<1>4. PICK h : FoldTabulates(h, n, Seq(S), s, step)
  BY <1>1, <1>3, FoldTable
<1>5. h = Next(h)
  <2>1. ASSUME NEW T \in SUBSET (1 .. n), T # {} PROVE h[T] = Searched(h[T \ {Max(T)}], t[Max(T)])
    <3>1. Max(T) \in 1 .. n /\ h[T \ {Max(T)}] \in Seq(S) /\ h[T] = step[<<Max(T), h[T \ {Max(T)}]>>]
      BY <1>4, <2>1 DEF FoldTabulates
    <3> QED
      BY <3>1
  <2> QED
    BY <1>1, <1>4, <2>1 DEF FoldTabulates, Searched
<1>6. table = Next(table)
  BY <1>5
<1> HIDE DEF table
<1>7. table[{}] = s
  BY <1>6
<1>8. ASSUME NEW k \in 1 .. n PROVE table[1 .. k] = Searched(table[1 .. k - 1], t[k])
  <2>1. k \in Nat \ {0} /\ 1 .. k # {} /\ 1 .. k \in SUBSET DOMAIN t
    <3>1. k \in Nat \ {0} /\ k \in 1 .. k /\ 1 .. k \subseteq 1 .. n
      BY <1>1
    <3> QED
      BY <1>1, <3>1
  <2>2. Max(1 .. k) = k /\ (1 .. k) \ {k} = 1 .. k - 1
    BY <2>1, MaxOfFirst
  <2> QED
    BY <1>6, <2>1, <2>2 DEF Searched
<1>9. \A k \in 0 .. n : table[1 .. k] \in Seq(S)
  <2> DEFINE G == {k \in 0 .. n : table[1 .. k] \in Seq(S)}
  <2>1. 0 \in G
    <3>1. 1 .. 0 = {}
      OBVIOUS
    <3> QED
      BY <1>1, <1>7, <3>1
  <2>2. ASSUME NEW k \in 1 .. n, k - 1 \in G PROVE k \in G
    BY <1>1, <1>8, <2>2, SearchedType
  <2> HIDE DEF G
  <2>3. \A k \in 0 .. n : k \in G
    BY <1>1, <2>1, <2>2, Upwards
  <2> QED
    BY <2>3 DEF G
<1>10. r[0] = s /\ r[n] = table[1 .. n] /\ (\A k \in 0 .. n : r[k] \in Seq(S)) /\ \A k \in 1 .. n : r[k] = Searched(r[k - 1], t[k])
  <2>1. 0 \in 0 .. n /\ n \in 0 .. n /\ 1 .. 0 = {} /\ \A k \in 1 .. n : k \in 0 .. n /\ k - 1 \in 0 .. n
    BY <1>1
  <2> QED
    BY <1>7, <1>8, <1>9, <2>1
<1> QED
  BY <1>2, <1>10 DEF n

(* The elements of s are found in t, in order: where the first are.        *)
Embeds(s, t) ==
  \E e \in [1 .. Len(s) -> 1 .. Len(t)] :
    /\ \A i \in 1 .. Len(s) : s[i] = t[e[i]]
    /\ \A i, j \in 1 .. Len(s) : i < j => e[i] < e[j]

(* The next smaller integer.                                               *)
LEMMA OneLess ==
  ASSUME NEW a \in Int, NEW b \in Int, a <= b + 1, a # b + 1
  PROVE  a <= b
OBVIOUS

(* Then the search, which takes the first it can, finds them all.          *)
LEMMA SearchFinds ==
  ASSUME NEW S, NEW s \in Seq(S), NEW t \in Seq(S), Embeds(s, t)
  PROVE  Unmatched(s, t) = << >>
<1> DEFINE n == Len(t)
           m == Len(s)
<1>1. n \in Nat /\ m \in Nat
  BY LenProperties
<1>2. PICK e \in [1 .. m -> 1 .. n] :
        /\ \A i \in 1 .. m : s[i] = t[e[i]]
        /\ \A i, j \in 1 .. m : i < j => e[i] < e[j]
  BY DEF Embeds
<1>3. PICK r : /\ r[0] = s /\ Unmatched(s, t) = r[n]
               /\ \A k \in 0 .. n : r[k] \in Seq(S)
               /\ \A k \in 1 .. n : r[k] = Searched(r[k - 1], t[k])
  BY SearchRuns
<1> HIDE DEF n, m
<1> DEFINE Suffix(q) == Len(q) <= m /\ \A i \in 1 .. Len(q) : q[i] = s[(m - Len(q)) + i]
           Found(q, k) == \A j \in 1 .. m : e[j] <= k => Len(q) <= m - j
           G == {k \in 0 .. n : Suffix(r[k]) /\ Found(r[k], k)}
<1>4. 0 \in G
  <2>1. r[0] = s /\ Len(r[0]) = m
    BY <1>3 DEF m
  <2>2. \A j \in 1 .. m : ~(e[j] <= 0)
    BY <1>1, <1>2
  <2> QED
    BY <1>1, <2>1, <2>2
<1>5. ASSUME NEW k \in 1 .. n, k - 1 \in G PROVE k \in G
  <2>1. k \in Int /\ k \in 0 .. n /\ k - 1 \in 0 .. n
    BY <1>1
  <2>2. PICK q \in Seq(S) : q = r[k - 1]
    BY <1>3, <2>1
  <2>3. PICK x : x = t[k]
    OBVIOUS
  <2>4. PICK p \in Seq(S) : p = r[k] /\ p = Searched(q, x)
    BY <1>1, <1>3, <2>2, <2>3
  <2>5. Suffix(q) /\ Found(q, k - 1)
    BY <1>5, <2>2
  <2>6. Len(q) \in Nat /\ Len(p) \in Nat /\ (q = << >> <=> Len(q) = 0)
    BY LenProperties, EmptySeq
  <2>7. CASE q # << >> /\ q[1] = x
    <3>1. Len(p) = Len(q) - 1 /\ \A i \in 1 .. Len(q) - 1 : p[i] = q[i + 1]
      BY <2>4, <2>7, SearchedType
    <3>2. Suffix(p)
      <4>1. ASSUME NEW i \in 1 .. Len(p) PROVE p[i] = s[(m - Len(p)) + i]
        <5>1. p[i] = q[i + 1] /\ i + 1 \in 1 .. Len(q)
          BY <2>6, <3>1
        <5>2. (m - Len(q)) + (i + 1) = (m - Len(p)) + i
          BY <1>1, <2>6, <3>1
        <5> QED
          BY <2>5, <5>1, <5>2
      <4> QED
        BY <1>1, <2>5, <2>6, <3>1, <4>1
    <3>3. ASSUME NEW j \in 1 .. m, e[j] <= k PROVE Len(p) <= m - j
      <4>1. CASE e[j] <= k - 1
        BY <1>1, <2>5, <2>6, <3>1, <4>1
      <4>2. CASE e[j] = k /\ j = 1
        BY <1>1, <2>5, <2>6, <3>1, <4>2
      <4>3. CASE e[j] = k /\ j # 1
        <5>1. j - 1 \in 1 .. m /\ j - 1 < j /\ j \in Int
          BY <1>1, <4>3
        <5>2. e[j - 1] < k /\ e[j - 1] \in Int
          BY <1>1, <1>2, <4>3, <5>1
        <5>3. e[j - 1] <= k - 1
          BY <2>1, <5>2
        <5>4. Len(q) <= m - (j - 1)
          BY <2>5, <5>1, <5>3
        <5> QED
          BY <1>1, <2>6, <3>1, <5>1, <5>4
      <4>4. e[j] \in Int
        BY <1>1, <1>2
      <4> QED
        BY <2>1, <3>3, <4>1, <4>2, <4>3, <4>4
    <3> QED
      <4>1. Found(p, k)
        BY <3>3
      <4> QED
        BY <2>1, <2>4, <3>2, <4>1
  <2>8. CASE ~(q # << >> /\ q[1] = x)
    <3>1. p = q
      BY <2>4, <2>8, SearchedType
    <3>2. ASSUME NEW j \in 1 .. m, e[j] <= k PROVE Len(q) <= m - j
      <4>0. e[j] \in Int /\ j \in Int
        BY <1>1, <1>2
      <4>1. CASE e[j] <= k - 1
        BY <2>5, <4>1
      <4>2. CASE e[j] = k
        <5>1. Len(q) <= m - (j - 1)
          <6>1. CASE j = 1
            BY <1>1, <2>5, <2>6, <6>1
          <6>2. CASE j # 1
            <7>1. j - 1 \in 1 .. m /\ j - 1 < j
              BY <1>1, <6>2
            <7>2. e[j - 1] < k /\ e[j - 1] \in Int
              BY <1>1, <1>2, <4>2, <7>1
            <7>3. e[j - 1] <= k - 1
              BY <2>1, <7>2
            <7> QED
              BY <2>5, <7>1, <7>3
          <6> QED
            BY <6>1, <6>2
        <5>2. Len(q) # m - (j - 1)
          <6> SUFFICES ASSUME Len(q) = m - (j - 1) PROVE FALSE
            OBVIOUS
          <6>1. 1 \in 1 .. Len(q) /\ (m - Len(q)) + 1 = j
            BY <1>1, <2>6, <4>0
          <6>2. q[1] = s[j]
            BY <2>5, <6>1
          <6>3. s[j] = x
            BY <1>2, <2>3, <4>2
          <6> QED
            BY <2>6, <2>8, <6>1, <6>2, <6>3
        <5> QED
          <6>1. PICK l \in Nat, w \in Nat, i \in Int : l = Len(q) /\ w = m /\ i = j
            BY <1>1, <2>6, <4>0
          <6>2. l <= w - (i - 1) /\ l # w - (i - 1)
            BY <5>1, <5>2, <6>1
          <6>3. PICK d \in Int : d = w - i /\ w - (i - 1) = d + 1
            BY <6>1
          <6>4. l <= d + 1 /\ l # d + 1
            BY <6>2, <6>3
          <6>5. l <= d
            BY <6>1, <6>4, OneLess
          <6> QED
            BY <6>1, <6>3, <6>5
      <4> QED
        BY <2>1, <3>2, <4>0, <4>1, <4>2
    <3> QED
      <4>1. Suffix(p) /\ Found(p, k)
        BY <2>5, <3>1, <3>2
      <4> QED
        BY <2>1, <2>4, <4>1
  <2> QED
    BY <2>7, <2>8
<1> HIDE DEF G
<1>6. \A k \in 0 .. n : k \in G
  BY <1>1, <1>4, <1>5, Upwards
<1>7. n \in 0 .. n /\ r[n] \in Seq(S)
  BY <1>1, <1>3
<1>8. Suffix(r[n]) /\ Found(r[n], n)
  BY <1>6, <1>7 DEF G
<1>9. Len(r[n]) \in Nat /\ (Len(r[n]) = 0 => r[n] = << >>)
  BY <1>7, LenProperties, EmptySeq
<1>10. CASE m = 0
  BY <1>1, <1>3, <1>8, <1>9, <1>10
<1>11. CASE m # 0
  <2>1. m \in 1 .. m /\ e[m] <= n
    BY <1>1, <1>2, <1>11
  <2> QED
    BY <1>1, <1>3, <1>8, <1>9, <2>1
<1> QED
  BY <1>10, <1>11

(* Every element is found in the sequence itself.                          *)
LEMMA EmbedsSelf ==
  ASSUME NEW S, NEW s \in Seq(S)
  PROVE  Embeds(s, s)
<1>1. Len(s) \in Nat
  BY LenProperties
<1> DEFINE e == [i \in 1 .. Len(s) |-> i]
<1>2. e \in [1 .. Len(s) -> 1 .. Len(s)] /\ \A i \in 1 .. Len(s) : e[i] = i
  OBVIOUS
<1> HIDE DEF e
<1>3. /\ \A i \in 1 .. Len(s) : s[i] = s[e[i]]
      /\ \A i, j \in 1 .. Len(s) : i < j => e[i] < e[j]
  BY <1>2
<1> QED
  BY <1>2, <1>3 DEF Embeds

(* The elements of a first part are found too.                             *)
LEMMA EmbedsFirst ==
  ASSUME NEW S, NEW s \in Seq(S), NEW t \in Seq(S), Embeds(s, t),
         NEW q \in Seq(S), Len(q) <= Len(s), \A i \in 1 .. Len(q) : q[i] = s[i]
  PROVE  Embeds(q, t)
<1>1. PICK e \in [1 .. Len(s) -> 1 .. Len(t)] :
        /\ \A i \in 1 .. Len(s) : s[i] = t[e[i]]
        /\ \A i, j \in 1 .. Len(s) : i < j => e[i] < e[j]
  BY DEF Embeds
<1>2. \A i \in 1 .. Len(q) : i \in 1 .. Len(s)
  BY LenProperties
<1> DEFINE d == [i \in 1 .. Len(q) |-> e[i]]
<1>3. d \in [1 .. Len(q) -> 1 .. Len(t)] /\ \A i \in 1 .. Len(q) : d[i] = e[i]
  BY <1>1, <1>2
<1> HIDE DEF d
<1>4. /\ \A i \in 1 .. Len(q) : q[i] = t[d[i]]
      /\ \A i, j \in 1 .. Len(q) : i < j => d[i] < d[j]
  BY <1>1, <1>2, <1>3
<1> QED
  BY <1>3, <1>4 DEF Embeds

(* The same elements behind both are found behind.                         *)
LEMMA EmbedsBoth ==
  ASSUME NEW S, NEW s \in Seq(S), NEW t \in Seq(S), Embeds(s, t), NEW u \in Seq(S)
  PROVE  Embeds(s \o u, t \o u)
<1>1. PICK m \in Nat, n \in Nat, l \in Nat : m = Len(s) /\ n = Len(t) /\ l = Len(u)
  BY LenProperties
<1>2. PICK e \in [1 .. m -> 1 .. n] :
        /\ \A i \in 1 .. m : s[i] = t[e[i]]
        /\ \A i, j \in 1 .. m : i < j => e[i] < e[j]
  BY <1>1 DEF Embeds
<1>3. PICK x : x = s \o u
  OBVIOUS
<1>4. PICK y : y = t \o u
  OBVIOUS
<1>5. /\ Len(x) = m + l
      /\ \A i \in 1 .. m + l : x[i] = IF i <= m THEN s[i] ELSE u[i - m]
  BY <1>1, <1>3, ConcatProperties
<1>6. /\ Len(y) = n + l
      /\ \A i \in 1 .. n + l : y[i] = IF i <= n THEN t[i] ELSE u[i - n]
  BY <1>1, <1>4, ConcatProperties
<1> DEFINE d == [i \in 1 .. m + l |-> IF i <= m THEN e[i] ELSE n + (i - m)]
<1>7. ASSUME NEW i \in 1 .. m + l
      PROVE  /\ i <= m => i \in 1 .. m /\ d[i] = e[i] /\ d[i] \in 1 .. n
             /\ ~(i <= m) => d[i] = n + (i - m) /\ d[i] \in n + 1 .. n + l /\ i - m \in 1 .. l
             /\ d[i] \in 1 .. n + l
  <2>1. CASE i <= m
    <3>1. i \in 1 .. m
      BY <2>1
    <3>2. d[i] = e[i] /\ e[i] \in 1 .. n
      BY <1>2, <2>1, <3>1
    <3> QED
      BY <2>1, <3>1, <3>2
  <2>2. CASE ~(i <= m)
    <3>1. d[i] = n + (i - m)
      BY <2>2
    <3>2. n + (i - m) \in n + 1 .. n + l /\ i - m \in 1 .. l /\ n + (i - m) \in 1 .. n + l
      BY <2>2
    <3> QED
      BY <2>2, <3>1, <3>2
  <2> QED
    BY <2>1, <2>2
<1>8. d \in [1 .. m + l -> 1 .. n + l]
  <2>1. d = [i \in 1 .. m + l |-> d[i]]
    OBVIOUS
  <2> HIDE DEF d
  <2> QED
    BY <1>7, <2>1
<1> HIDE DEF d
<1>9. ASSUME NEW i \in 1 .. m + l PROVE x[i] = y[d[i]]
  <2>1. CASE i <= m
    <3>1. i \in 1 .. m /\ d[i] = e[i] /\ d[i] \in 1 .. n /\ d[i] \in 1 .. n + l
      BY <1>7, <2>1
    <3>2. y[d[i]] = t[d[i]]
      BY <1>6, <3>1
    <3> QED
      BY <1>2, <1>5, <2>1, <3>1, <3>2
  <2>2. CASE ~(i <= m)
    <3>1. d[i] = n + (i - m) /\ d[i] \in 1 .. n + l /\ ~(d[i] <= n) /\ d[i] - n = i - m
      BY <1>7, <2>2
    <3> QED
      BY <1>5, <1>6, <2>2, <3>1
  <2> QED
    BY <2>1, <2>2
<1>10. ASSUME NEW i \in 1 .. m + l, NEW j \in 1 .. m + l, i < j PROVE d[i] < d[j]
  <2>1. CASE j <= m
    <3>1. i <= m
      BY <1>10, <2>1
    <3> QED
      BY <1>2, <1>7, <1>10, <2>1, <3>1
  <2>2. CASE i <= m /\ ~(j <= m)
    <3>1. d[i] \in 1 .. n /\ d[j] \in n + 1 .. n + l
      BY <1>7, <2>2
    <3> QED
      BY <3>1
  <2>3. CASE ~(i <= m)
    <3>1. ~(j <= m)
      BY <1>10, <2>3
    <3>2. d[i] = n + (i - m) /\ d[j] = n + (j - m)
      BY <1>7, <2>3, <3>1
    <3> QED
      BY <1>10, <3>2
  <2> QED
    BY <2>1, <2>2, <2>3
<1>11. Embeds(x, y)
  BY <1>5, <1>6, <1>8, <1>9, <1>10 DEF Embeds
<1> QED
  BY <1>3, <1>4, <1>11

(* The target is about to read what it has not read of the output; when it *)
(* has read the drafts on top, the accepted ones are the first of them,    *)
(* and the token that ends a step comes behind those that were read.       *)
OutputRead ==
  /\ spec.pc \in {"step", "draft", "verify"} => Embeds(generated, past.target \o spec.cur)
  /\ spec.pc = "judge" =>
       /\ Embeds(generated \o spec.drafts, past.target)
       /\ \A i \in 1 .. Len(spec.fresh) : spec.fresh[i] = spec.drafts[i]
  /\ spec.pc = "append" =>
       \E kept \in Seq(Columns), c \in Columns :
         spec.fresh = kept \o <<c>> /\ Embeds(generated \o kept, past.target)

(* The step appends what was read and one token to be fed.                 *)
LEMMA StepAppends ==
  ASSUME NEW out \in Seq(Fed), NEW kept \in Seq(Columns), NEW c \in Columns, NEW read \in Seq(Fed),
         Embeds(out \o kept, read)
  PROVE  /\ Last(kept \o <<c>>) = c
         /\ Embeds(out \o (kept \o <<c>>), read \o <<c>>)
<1> DEFINE one == <<c>>
<1>1. kept \in Seq(Fed) /\ one \in Seq(Fed) /\ one \in Seq(Columns) /\ c \in Fed /\ Len(one) = 1 /\ one[1] = c
  <2>1. \A s \in Seq(Columns) : s \in Seq(Fed)
    BY DEF Fed
  <2> QED
    BY <2>1 DEF Fed
<1>2. (out \o kept) \o one = out \o (kept \o one)
  <2>1. \A s, t \in Seq(Fed) : (s \o t) \o <<c>> = s \o (t \o <<c>>)
    BY <1>1, JoinLast
  <2> QED
    BY <1>1, <2>1
<1>3. Len(kept) \in Nat
  BY LenProperties
<1> HIDE DEF one
<1>4. /\ Len(kept \o one) = Len(kept) + 1
      /\ \A i \in 1 .. Len(kept) + 1 : (kept \o one)[i] = IF i <= Len(kept) THEN kept[i] ELSE one[i - Len(kept)]
  <2>1. /\ Len(kept \o one) = Len(kept) + Len(one)
        /\ \A i \in 1 .. Len(kept) + Len(one) : (kept \o one)[i] = IF i <= Len(kept) THEN kept[i] ELSE one[i - Len(kept)]
    <3>1. kept \in Seq(Fed) /\ one \in Seq(Fed)
      BY <1>1
    <3> QED
      BY <3>1, ConcatProperties
  <2> QED
    BY <1>1, <2>1
<1>5. Last(kept \o one) = c
  <2>1. (kept \o one)[Len(kept) + 1] = one[1]
    <3>1. Len(kept) + 1 \in 1 .. Len(kept) + 1 /\ ~(Len(kept) + 1 <= Len(kept)) /\ (Len(kept) + 1) - Len(kept) = 1
      BY <1>3
    <3> QED
      BY <1>4, <3>1
  <2> QED
    BY <1>1, <1>4, <2>1 DEF Last
<1>6. Embeds((out \o kept) \o one, read \o one)
  <2>1. out \o kept \in Seq(Fed)
    BY <1>1, ConcatProperties
  <2> QED
    BY <1>1, <2>1, EmbedsBoth
<1>7. Embeds(out \o (kept \o one), read \o one)
  BY <1>2, <1>6
<1> QED
  BY <1>5, <1>7 DEF one

(* Every step of the decoder keeps that.                                   *)
LEMMA OutputReadKeeps ==
  ASSUME DecoderInv, OutputRead, [Decodes]_specVars
  PROVE  OutputRead'
<1>1. /\ spec \in SpecStates /\ generated \in Seq(Fed)
      /\ past \in [target : Seq(Fed), draft : Seq(Fed)] /\ StepInOrder
  BY DEF DecoderInv, SpecTypeOK, Fed
<1>2. /\ spec.cur \in Seq(Fed) /\ spec.drafts \in Seq(Columns) /\ spec.fresh \in Seq(Columns)
      /\ past.target \in Seq(Fed)
      /\ spec.drafts \in Seq(Fed) /\ spec.fresh \in Seq(Fed)
  <2>1. \A s \in Seq(Columns) : s \in Seq(Fed)
    BY DEF Fed
  <2> QED
    BY <1>1, <2>1 DEF SpecStates, Fed
<1>3. CASE SpecStart
  <2>1. Prompts \in Seq(Fed) /\ << >> \o Prompts = Prompts
    <3>1. \A i \in 1 .. PromptLen : Prompt \in Fed
      BY DEF Fed
    <3>2. PromptLen \in Nat
      BY SpeculativeAssumption
    <3>3. Prompts \in Seq(Fed)
      BY <3>1, <3>2, IsASeq DEF Prompts
    <3> QED
      BY <3>3, ConcatEmptySeq
  <2>2. spec'.pc = "step" /\ spec'.cur = Prompts /\ past'.target = << >> /\ generated' = Prompts
    BY <1>3 DEF SpecStart, Off, NoPast
  <2> HIDE DEF Prompts
  <2>3. Embeds(Prompts, << >> \o Prompts)
    BY <2>1, EmbedsSelf
  <2> QED
    BY <2>2, <2>3 DEF OutputRead
<1>4. CASE EnterStep
  <2>1. spec.pc = "step" /\ spec'.pc \in {"draft", "verify"} /\ spec'.cur = spec.cur /\ UNCHANGED <<generated, past>>
    BY <1>1, <1>4 DEF EnterStep, SpecStates
  <2> QED
    BY <2>1 DEF OutputRead
<1>5. CASE SpecEnd
  <2>1. spec'.pc = "off"
    BY <1>1, <1>5 DEF SpecEnd, SpecStates
  <2> QED
    BY <2>1 DEF OutputRead
<1>6. CASE AppendStep
  <2>1. /\ spec.pc = "append" /\ generated' = generated \o spec.fresh /\ past' = past
        /\ spec'.pc = "step" /\ spec'.cur = <<Last(spec.fresh)>>
    BY <1>1, <1>6 DEF AppendStep, SpecStates
  <2>2. PICK kept \in Seq(Columns), c \in Columns :
          spec.fresh = kept \o <<c>> /\ Embeds(generated \o kept, past.target)
    BY <2>1 DEF OutputRead
  <2>3. Last(kept \o <<c>>) = c /\ Embeds(generated \o (kept \o <<c>>), past.target \o <<c>>)
    BY <1>1, <1>2, <2>2, StepAppends
  <2>4. Embeds(generated', past'.target \o spec'.cur)
    BY <2>1, <2>2, <2>3
  <2> QED
    BY <2>1, <2>4 DEF OutputRead
<1>7. ASSUME NEW column \in Columns, Draft(column) PROVE OutputRead'
  <2>1. /\ spec.pc = "draft" /\ spec'.pc \in {"draft", "verify"} /\ spec'.cur = spec.cur
        /\ generated' = generated /\ past'.target = past.target
    BY <1>1, <1>7 DEF Draft, SpecStates
  <2> QED
    BY <2>1 DEF OutputRead
<1>8. CASE Verify
  <2>1. /\ spec.pc = "verify" /\ generated' = generated /\ spec'.pc = "judge" /\ spec'.fresh = << >>
        /\ spec'.drafts = spec.drafts /\ past'.target = (past.target \o spec.cur) \o spec.drafts
    BY <1>1, <1>8 DEF Verify, SpecStates, StepInOrder
  <2>2. past.target \o spec.cur \in Seq(Fed)
    BY <1>2, ConcatProperties
  <2>3. Embeds(generated \o spec.drafts, (past.target \o spec.cur) \o spec.drafts)
    BY <1>1, <1>2, <2>1, <2>2, EmbedsBoth DEF OutputRead
  <2>4. \A i \in 1 .. Len(<< >>) : << >>[i] = spec.drafts[i]
    OBVIOUS
  <2> QED
    BY <2>1, <2>3, <2>4 DEF OutputRead
<1>9. ASSUME NEW column \in Columns, StandardStep(column) PROVE OutputRead'
  <2>1. /\ spec.pc = "verify" /\ generated' = generated /\ spec'.pc = "append"
        /\ spec'.fresh = <<column>> /\ past'.target = past.target \o spec.cur
    BY <1>1, <1>9 DEF StandardStep, SpecStates
  <2>2. << >> \in Seq(Columns) /\ generated \o << >> = generated /\ << >> \o <<column>> = <<column>>
    BY <1>1, ConcatEmptySeq
  <2>3. Embeds(generated \o << >>, past'.target)
    BY <2>1, <2>2 DEF OutputRead
  <2> QED
    BY <1>9, <2>1, <2>2, <2>3 DEF OutputRead
<1>10. CASE Accept
  <2>1. /\ spec.pc = "judge" /\ Len(spec.fresh) < Len(spec.drafts) /\ UNCHANGED <<generated, past>>
        /\ spec'.pc = "judge" /\ spec'.drafts = spec.drafts
        /\ spec'.fresh = Append(spec.fresh, spec.drafts[Len(spec.fresh) + 1])
    BY <1>1, <1>10 DEF Accept, Candidate, SpecStates
  <2>2. Len(spec.fresh) \in Nat /\ Len(spec.drafts) \in Nat
    BY <1>2, LenProperties
  <2>3. PICK c \in Columns : c = spec.drafts[Len(spec.fresh) + 1]
    <3>1. Len(spec.fresh) + 1 \in 1 .. Len(spec.drafts)
      BY <2>1, <2>2
    <3> QED
      BY <1>2, <3>1, ElementOfSeq
  <2>4. /\ Len(Append(spec.fresh, c)) = Len(spec.fresh) + 1
        /\ \A i \in 1 .. Len(spec.fresh) : Append(spec.fresh, c)[i] = spec.fresh[i]
        /\ Append(spec.fresh, c)[Len(spec.fresh) + 1] = c
    BY <1>2, AppendProperties
  <2>5. \A i \in 1 .. Len(spec.fresh) : spec.fresh[i] = spec.drafts[i]
    BY <2>1 DEF OutputRead
  <2>6. \A i \in 1 .. Len(spec'.fresh) : spec'.fresh[i] = spec'.drafts[i]
    BY <2>1, <2>2, <2>3, <2>4, <2>5
  <2>7. Embeds(generated' \o spec'.drafts, past'.target)
    BY <2>1 DEF OutputRead
  <2> QED
    BY <2>1, <2>6, <2>7 DEF OutputRead
<1>11. ASSUME NEW column \in Columns, Reject(column) \/ Bonus(column) PROVE OutputRead'
  <2>1. /\ spec.pc = "judge" /\ UNCHANGED <<generated, past>> /\ spec'.pc = "append"
        /\ spec'.fresh = Append(spec.fresh, column)
    BY <1>1, <1>11 DEF Reject, Bonus, SpecStates
  <2>2. spec'.fresh = spec.fresh \o <<column>>
    BY <1>2, <2>1, AppendIsConcat
  <2>3. /\ Embeds(generated \o spec.drafts, past.target) /\ Len(spec.fresh) <= Len(spec.drafts)
        /\ \A i \in 1 .. Len(spec.fresh) : spec.fresh[i] = spec.drafts[i]
    BY <1>1, <2>1 DEF OutputRead, StepInOrder
  <2>4. Embeds(generated \o spec.fresh, past.target)
    <3>1. PICK g \in Nat, d \in Nat, f \in Nat : g = Len(generated) /\ d = Len(spec.drafts) /\ f = Len(spec.fresh)
      BY <1>1, <1>2, LenProperties
    <3>2. PICK whole \in Seq(Fed) : whole = generated \o spec.drafts
      BY <1>1, <1>2, ConcatProperties
    <3>3. PICK first \in Seq(Fed) : first = generated \o spec.fresh
      BY <1>1, <1>2, ConcatProperties
    <3>4. /\ Len(whole) = g + d
          /\ \A i \in 1 .. g + d : whole[i] = IF i <= g THEN generated[i] ELSE spec.drafts[i - g]
      BY <1>1, <1>2, <3>1, <3>2, ConcatProperties
    <3>5. /\ Len(first) = g + f
          /\ \A i \in 1 .. g + f : first[i] = IF i <= g THEN generated[i] ELSE spec.fresh[i - g]
      BY <1>1, <1>2, <3>1, <3>3, ConcatProperties
    <3>6. f <= d
      BY <2>3, <3>1
    <3>7. ASSUME NEW i \in 1 .. g + f PROVE first[i] = whole[i]
      <4>1. i \in 1 .. g + d
        BY <3>6
      <4>2. CASE i <= g
        BY <3>4, <3>5, <4>1, <4>2
      <4>3. CASE ~(i <= g)
        <5>1. i - g \in 1 .. f
          BY <4>3
        <5>2. spec.fresh[i - g] = spec.drafts[i - g]
          BY <2>3, <3>1, <5>1
        <5> QED
          BY <3>4, <3>5, <4>1, <4>3, <5>2
      <4> QED
        BY <4>2, <4>3
    <3>8. Len(first) <= Len(whole)
      BY <3>4, <3>5, <3>6
    <3>9. Embeds(first, past.target)
      BY <1>2, <2>3, <3>2, <3>5, <3>7, <3>8, EmbedsFirst
    <3> QED
      BY <3>3, <3>9
  <2> QED
    BY <1>2, <1>11, <2>1, <2>2, <2>4 DEF OutputRead
<1>12. CASE UNCHANGED specVars
  BY <1>12 DEF specVars, OutputRead
<1> QED
  BY <1>3, <1>4, <1>5, <1>6, <1>7, <1>8, <1>9, <1>10, <1>11, <1>12 DEF Decodes, SpecStep

(* Rejected drafts in between do not keep a token of the output from the   *)
(* target model: it has read all of them in order but the one it is fed    *)
(* next (speculative.py:138-147, engine.py:416-425), and the loop's books  *)
(* agree with the output (engine.py:411-428), for any rows, number of      *)
(* drafts and limit.                                                       *)
THEOREM SpeculationAlwaysKeepsBooks == MCEngineSpec => []SpeculationKeepsBooks
<1>1. MCEngineInit => OutputRead
  BY DEF MCEngineInit, EngineInit, SpecInit, Off, OutputRead
<1>2. DecoderInv /\ OutputRead /\ [MCEngineNext]_mcVars => OutputRead'
  BY OnlyDecoderMoves, OutputReadKeeps
<1>3. DecoderInv /\ OutputRead => TargetMissesNothing
  <2> SUFFICES ASSUME DecoderInv, OutputRead, AtStep
               PROVE  Unmatched(generated, past.target \o spec.cur) = << >>
    BY DEF TargetMissesNothing
  <2>1. generated \in Seq(Fed) /\ past.target \o spec.cur \in Seq(Fed)
    <3>1. generated \in Seq(Fed) /\ past.target \in Seq(Fed) /\ spec.cur \in Seq(Fed)
      BY DEF DecoderInv, SpecTypeOK, SpecStates, Fed
    <3> QED
      BY <3>1, ConcatProperties
  <2>2. Embeds(generated, past.target \o spec.cur)
    BY DEF OutputRead, AtStep
  <2> QED
    BY <2>1, <2>2, SearchFinds
<1>4. (SpecTypeOK /\ BooksBalance) /\ TargetMissesNothing => SpeculationKeepsBooks
  BY DEF SpeculationKeepsBooks
<1> QED
  BY <1>1, <1>2, <1>3, <1>4, DecoderInvariance, BooksAlwaysBalance, PTL DEF MCEngineSpec

(***************************************************************************)
(* The engines of one process                                              *)
(***************************************************************************)

(* A sequence without repetitions is no longer than the set it is from.    *)
LEMMA InjectiveLength ==
  ASSUME NEW S, IsFiniteSet(S), NEW s \in Seq(S),
         \A i, j \in 1 .. Len(s) : s[i] = s[j] => i = j
  PROVE  Len(s) <= Cardinality(S)
<1>1. Len(s) \in Nat /\ s \in [1 .. Len(s) -> S]
  BY ElementOfSeq, LenProperties
<1>2. s \in Injection(1 .. Len(s), S)
  BY <1>1 DEF Injection, IsInjective
<1>3. IsFiniteSet(1 .. Len(s)) /\ Cardinality(1 .. Len(s)) = Len(s)
  BY <1>1, FS_Interval
<1> QED
  BY <1>2, <1>3, FS_Injection

(* The patched patchers, from the one whose forward is called first to the *)
(* one that saved vLLM's own.                                              *)
Stacked(st) ==
  /\ st \in Seq(Engines)
  /\ \A i, j \in 1 .. Len(st) : st[i] = st[j] => i = j
  /\ patched = {st[i] : i \in 1 .. Len(st)}
  /\ forward = IF Len(st) = 0 THEN "vllm" ELSE st[1]
  /\ \A i \in 1 .. Len(st) : original[st[i]] = IF i < Len(st) THEN st[i + 1] ELSE "vllm"

(* What a call of the attention runs through.                              *)
LEMMA ChainRuns ==
  ASSUME FrontAssumption, NEW st, Stacked(st)
  PROVE  Chain = [k \in 0 .. Cardinality(Engines) + 1 |-> IF k < Len(st) THEN st[k + 1] ELSE "vllm"]
<1> DEFINE n == Cardinality(Engines) + 1
           h == [k \in 0 .. n |-> IF k < Len(st) THEN st[k + 1] ELSE "vllm"]
           Next(g) == [k \in 0 .. n |-> IF k = 0 THEN forward ELSE IF g[k - 1] \in Engines THEN original[g[k - 1]] ELSE g[k - 1]]
           link == CHOOSE g : g = Next(g)
<1>1. n \in Nat
  BY FS_CardinalityType DEF FrontAssumption
<1>2. Len(st) \in Nat /\ \A i \in 1 .. Len(st) : st[i] \in Engines
  BY ElementOfSeq, LenProperties DEF Stacked
<1>3. ASSUME NEW k \in 0 .. n PROVE h[k] = Next(h)[k]
  <2>1. CASE k = 0
    BY <1>2, <2>1 DEF Stacked
  <2>2. CASE k > 0 /\ k - 1 < Len(st)
    <3>1. h[k - 1] = st[k] /\ k \in 1 .. Len(st)
      BY <1>1, <1>2, <2>2
    <3>2. h[k - 1] \in Engines
      BY <1>2, <3>1
    <3>3. Next(h)[k] = original[st[k]]
      BY <1>1, <2>2, <3>1, <3>2
    <3> QED
      BY <1>2, <3>1, <3>3 DEF Stacked
  <2>3. CASE k > 0 /\ ~(k - 1 < Len(st))
    <3>1. h[k - 1] = "vllm" /\ h[k] = "vllm"
      BY <1>1, <1>2, <2>3
    <3>2. "vllm" \notin Engines
      BY DEF FrontAssumption
    <3> QED
      BY <2>3, <3>1, <3>2
  <2> QED
    BY <1>1, <2>1, <2>2, <2>3
<1>4. h = Next(h)
  BY <1>3
<1>5. link = Next(link)
  BY <1>4
<1> HIDE DEF h, link
<1>6. \A k \in 0 .. n : link[k] = h[k]
  <2> DEFINE G == {k \in 0 .. n : link[k] = h[k]}
  <2>1. 0 \in G
    BY <1>1, <1>4, <1>5
  <2>2. ASSUME NEW k \in 1 .. n, k - 1 \in G PROVE k \in G
    <3>1. Next(link)[k] = Next(h)[k]
      BY <1>1, <2>2
    <3>2. link[k] = Next(link)[k] /\ h[k] = Next(h)[k]
      BY <1>4, <1>5
    <3> QED
      BY <1>1, <3>1, <3>2
  <2> HIDE DEF G
  <2>3. \A k \in 0 .. n : k \in G
    BY <1>1, <2>1, <2>2, Upwards
  <2> QED
    BY <2>3 DEF G
<1>7. Chain = link
  BY DEF Chain, link
<1>8. link = [k \in 0 .. n |-> link[k]] /\ h = [k \in 0 .. n |-> h[k]]
  BY <1>4, <1>5
<1> QED
  BY <1>6, <1>7, <1>8 DEF h

(* The attention layers of the model.                                      *)
AttentionLayers == {ModelLayers[i] : i \in 1 .. Len(ModelLayers)}

(* The buffer a patcher keeps the next step of a layer in.                 *)
BufferOf(p, l) == IF l \in DOMAIN buffers[p] THEN buffers[p][l] ELSE NewBuffer(p, l)

(* After a decode step every layer has a buffer with that step.            *)
LEMMA StepOfLayers ==
  ASSUME FrontAssumption, installation.layerIdx, NEW p, NEW step,
         buffers[p] = [l \in DOMAIN buffers[p] |-> buffers[p][l]]
  PROVE  AfterLayers(p, step) =
           [l \in DOMAIN buffers[p] \cup AttentionLayers |->
              IF l \in AttentionLayers THEN Appended(BufferOf(p, l), step) ELSE buffers[p][l]]
<1> PICK b : b = buffers[p]
  OBVIOUS
<1> DEFINE n == Len(ModelLayers)
           New(l) == Appended(BufferOf(p, l), step)
           Seen(k) == {ModelLayers[i] : i \in 1 .. k}
           After(k) == [l \in DOMAIN b \cup Seen(k) |-> IF l \in Seen(k) THEN New(l) ELSE b[l]]
           h == [k \in 0 .. n |-> After(k)]
           Next(g) == [k \in 0 .. n |-> IF k = 0 THEN buffers[p] ELSE AppendTo(p, g[k - 1], ModelLayers[k], step)]
           upTo == CHOOSE g : g = Next(g)
<1>1. n \in Nat /\ \A i, j \in 1 .. n : ModelLayers[i] = ModelLayers[j] => i = j
  BY LenProperties DEF FrontAssumption
<1> HIDE DEF n, New
<1>2. h[0] = b
  <2>1. Seen(0) = {}
    OBVIOUS
  <2> QED
    BY <1>1, <2>1
<1>3. ASSUME NEW k \in 1 .. n PROVE After(k) = AppendTo(p, After(k - 1), ModelLayers[k], step)
  <2> DEFINE at == ModelLayers[k]
  <2>1. Seen(k) = Seen(k - 1) \cup {at}
    <3>1. \A i : i \in 1 .. k <=> i \in 1 .. k - 1 \/ i = k
      BY <1>1
    <3> QED
      BY <3>1
  <2>2. at \notin Seen(k - 1)
    <3>1. ASSUME NEW i \in 1 .. k - 1 PROVE ModelLayers[i] # at
      BY <1>1
    <3> QED
      BY <3>1
  <2> HIDE DEF Seen, at
  <2> DEFINE before == After(k - 1)
             all == DOMAIN before \cup {at}
  <2>3. DOMAIN before = DOMAIN b \cup Seen(k - 1) /\ all = DOMAIN b \cup Seen(k)
    BY <2>1
  <2>4. AppendTo(p, before, at, step) =
          [l \in all |-> IF l # at THEN before[l] ELSE Appended(IF at \in DOMAIN before THEN before[at] ELSE NewBuffer(p, at), step)]
    BY DEF AppendTo, LayerOf
  <2>5. (IF at \in DOMAIN before THEN before[at] ELSE NewBuffer(p, at)) = IF at \in DOMAIN b THEN b[at] ELSE NewBuffer(p, at)
    BY <2>2, <2>3
  <2>6. ASSUME NEW l \in all PROVE After(k)[l] = IF l # at THEN before[l] ELSE New(at)
    BY <2>1, <2>2, <2>3
  <2>7. After(k) = [l \in all |-> After(k)[l]]
    BY <2>3
  <2>8. AppendTo(p, before, at, step) = [l \in all |-> IF l # at THEN before[l] ELSE New(at)]
    <3> DEFINE old == IF at \in DOMAIN before THEN before[at] ELSE NewBuffer(p, at)
               own == BufferOf(p, at)
    <3>1. old = own
      BY <2>5 DEF BufferOf
    <3>2. AppendTo(p, before, at, step) = [l \in all |-> IF l # at THEN before[l] ELSE Appended(old, step)]
      BY <2>4
    <3>3. New(at) = Appended(own, step)
      BY DEF New
    <3> HIDE DEF old, own, before, all
    <3> QED
      BY <3>1, <3>2, <3>3
  <2> HIDE DEF before, all
  <2>9. After(k) = [l \in all |-> IF l # at THEN before[l] ELSE New(at)]
    BY <2>6, <2>7
  <2> QED
    BY <2>8, <2>9 DEF at, before
<1> HIDE DEF After
<1>4. h = Next(h)
  <2>1. ASSUME NEW k \in 0 .. n PROVE h[k] = Next(h)[k]
    <3>1. CASE k = 0
      BY <1>2, <3>1
    <3>2. CASE k # 0
      <4>1. k \in 1 .. n /\ k - 1 \in 0 .. n
        BY <1>1, <3>2
      <4> QED
        BY <1>3, <3>2, <4>1
    <3> QED
      BY <3>1, <3>2
  <2> QED
    BY <2>1
<1>5. upTo = Next(upTo)
  BY <1>4
<1> HIDE DEF h, upTo
<1>6. \A k \in 0 .. n : upTo[k] = h[k]
  <2> DEFINE G == {k \in 0 .. n : upTo[k] = h[k]}
  <2>1. 0 \in G
    BY <1>1, <1>4, <1>5
  <2>2. ASSUME NEW k \in 1 .. n, k - 1 \in G PROVE k \in G
    <3>1. Next(upTo)[k] = Next(h)[k]
      BY <1>1, <2>2
    <3>2. upTo[k] = Next(upTo)[k] /\ h[k] = Next(h)[k]
      BY <1>4, <1>5
    <3> QED
      BY <1>1, <3>1, <3>2
  <2> HIDE DEF G
  <2>3. \A k \in 0 .. n : k \in G
    BY <1>1, <2>1, <2>2, Upwards
  <2> QED
    BY <2>3 DEF G
<1>7. AfterLayers(p, step) = upTo[n]
  BY DEF AfterLayers, upTo, n
<1>8. upTo[n] = After(n)
  BY <1>1, <1>6 DEF h
<1> QED
  BY <1>7, <1>8 DEF After, New, AttentionLayers, n

(* The fields of a buffer.                                                 *)
BufferParts == {"steps", "cached", "valid", "bits"}

(* Every layer of the model has kept all steps, and a valid concatenation  *)
(* is that of all of them.                                                 *)
BufferHolds(p) ==
  /\ buffers[p] = [l \in DOMAIN buffers[p] |-> buffers[p][l]]
  /\ DOMAIN buffers[p] = AttentionLayers \/ (DOMAIN buffers[p] = {} /\ appended[p] = <<>>)
  /\ \A l \in DOMAIN buffers[p] :
       LET b == buffers[p][l]
       IN  /\ DOMAIN b = BufferParts
           /\ b.steps = appended[p]
           /\ b.valid \in BOOLEAN
           /\ b.valid => b.cached = b.steps

(* The inductive invariant of the engines of a process.                    *)
FrontInv ==
  /\ settings \in [Engines -> EngineConfigs]
  /\ DOMAIN backend = Engines /\ DOMAIN original = Engines /\ DOMAIN buffers = Engines /\ DOMAIN appended = Engines
  /\ \E st : Stacked(st)
  /\ installation.layerIdx => \A p \in Engines : BufferHolds(p)
  /\ BuffersReadBack
  /\ DraftsWhenAsked

(* It holds when nothing is loaded ...                                     *)
LEMMA FrontStarts == ASSUME FrontAssumption, FrontInit PROVE FrontInv
<1> USE DEF FrontInit
<1>1. Stacked(<<>>)
  BY DEF Stacked
<1>2. ASSUME NEW p \in Engines PROVE BufferHolds(p)
  <2>1. buffers[p] = <<>> /\ appended[p] = <<>>
    OBVIOUS
  <2>2. DOMAIN buffers[p] = {}
    BY <2>1
  <2>3. <<>> = [l \in DOMAIN <<>> |-> <<>>[l]]
    OBVIOUS
  <2> QED
    BY <2>1, <2>2, <2>3 DEF BufferHolds
<1>3. BuffersReadBack
  BY DEF BuffersReadBack
<1>4. DraftsWhenAsked
  BY DEF DraftsWhenAsked, NotLoaded
<1> QED
  BY <1>1, <1>2, <1>3, <1>4 DEF FrontInv

(* Patching puts on top of the stack, taking off takes from there.         *)
LEMMA StackKept ==
  ASSUME FrontAssumption, NEW p \in Engines, NEW st, Stacked(st), DOMAIN original = Engines,
         Patch(p) \/ (forward = p /\ Unpatch(p)) \/ UNCHANGED <<forward, original, patched>>
  PROVE  DOMAIN original' = Engines /\ \E s : Stacked(s)'
<1>1. Len(st) \in Nat /\ \A i \in 1 .. Len(st) : st[i] \in Engines
  BY ElementOfSeq, LenProperties DEF Stacked
<1>0. Len(st) \in Nat
  BY <1>1
<1>2. CASE UNCHANGED <<forward, original, patched>>
  <2>1. Stacked(st)'
    BY <1>2 DEF Stacked
  <2> QED
    BY <1>2, <2>1
<1>3. CASE Patch(p) /\ p \notin patched
  <2> DEFINE new == <<p>> \o st
  <2>1. /\ new \in Seq(Engines) /\ Len(new) = Len(st) + 1
        /\ new[1] = p /\ \A i \in 1 .. Len(st) : new[i + 1] = st[i]
    <3>1. <<p>> \in Seq(Engines) /\ st \in Seq(Engines)
      BY DEF Stacked
    <3> QED
      BY <1>1, <3>1, ConcatProperties
  <2> HIDE DEF new
  <2>2. /\ forward' = p /\ patched' = patched \cup {p} /\ DOMAIN original' = Engines
        /\ original'[p] = forward /\ \A q \in Engines \ {p} : original'[q] = original[q]
    BY <1>3 DEF Patch
  <2>3. \A i \in 1 .. Len(new) : i = 1 \/ (i - 1 \in 1 .. Len(st) /\ new[i] = st[i - 1])
    <3> SUFFICES ASSUME NEW i \in 1 .. Len(new), i # 1 PROVE i - 1 \in 1 .. Len(st) /\ new[i] = st[i - 1]
      OBVIOUS
    <3>1. i - 1 \in 1 .. Len(st) /\ (i - 1) + 1 = i
      BY <1>1, <2>1
    <3>2. new[(i - 1) + 1] = st[i - 1]
      BY <2>1, <3>1
    <3> QED
      BY <3>1, <3>2
  <2>4. \A i \in 1 .. Len(st) : st[i] # p
    BY <1>3 DEF Stacked
  <2>5. \A i, j \in 1 .. Len(new) : new[i] = new[j] => i = j
    <3> SUFFICES ASSUME NEW i \in 1 .. Len(new), NEW j \in 1 .. Len(new), new[i] = new[j] PROVE i = j
      OBVIOUS
    <3>1. CASE i = 1 \/ j = 1
      BY <2>1, <2>3, <2>4, <3>1
    <3>2. CASE i # 1 /\ j # 1
      <4>1. i - 1 \in 1 .. Len(st) /\ j - 1 \in 1 .. Len(st) /\ st[i - 1] = st[j - 1]
        BY <2>3, <3>2
      <4>2. i - 1 = j - 1
        BY <4>1 DEF Stacked
      <4> QED
        BY <4>2
    <3> QED
      BY <3>1, <3>2
  <2>6. patched' = {new[i] : i \in 1 .. Len(new)}
    <3>1. ASSUME NEW x \in patched' PROVE \E i \in 1 .. Len(new) : new[i] = x
      <4>1. CASE x = p
        BY <1>1, <2>1, <4>1
      <4>2. CASE x \in patched
        <5>1. PICK i \in 1 .. Len(st) : st[i] = x
          BY <4>2 DEF Stacked
        <5>2. i + 1 \in 1 .. Len(new) /\ new[i + 1] = x
          BY <1>1, <2>1, <5>1
        <5> QED
          BY <5>2
      <4> QED
        BY <2>2, <4>1, <4>2
    <3>2. ASSUME NEW i \in 1 .. Len(new) PROVE new[i] \in patched'
      <4>1. CASE i = 1
        BY <2>1, <2>2, <4>1
      <4>2. CASE i # 1
        BY <2>2, <2>3, <4>2 DEF Stacked
      <4> QED
        BY <4>1, <4>2
    <3> QED
      BY <3>1, <3>2
  <2>7. ASSUME NEW i \in 1 .. Len(new)
        PROVE  original'[new[i]] = IF i < Len(new) THEN new[i + 1] ELSE "vllm"
    <3>1. CASE i = 1
      <4>1. CASE Len(st) = 0
        BY <2>1, <2>2, <3>1, <4>1 DEF Stacked
      <4>2. CASE Len(st) # 0
        <5>1. 1 \in 1 .. Len(st) /\ new[2] = st[1]
          BY <1>1, <2>1, <4>2
        <5> QED
          BY <1>1, <2>1, <2>2, <3>1, <4>2, <5>1 DEF Stacked
      <4> QED
        BY <4>1, <4>2
    <3>2. CASE i # 1
      <4>1. i - 1 \in 1 .. Len(st) /\ new[i] = st[i - 1] /\ (i - 1) + 1 = i
        BY <1>1, <2>1, <2>3, <3>2
      <4>2. original'[new[i]] = IF i - 1 < Len(st) THEN st[i] ELSE "vllm"
        BY <1>1, <2>2, <2>4, <4>1 DEF Stacked
      <4>3. i < Len(new) => i \in 1 .. Len(st) /\ new[i + 1] = st[i]
        BY <1>1, <2>1, <4>1
      <4> QED
        BY <1>1, <2>1, <4>1, <4>2, <4>3
    <3> QED
      BY <3>1, <3>2
  <2>8. Stacked(new)'
    <3>1. Len(new) # 0
      BY <1>1, <2>1
    <3> QED
      BY <2>1, <2>2, <2>5, <2>6, <2>7, <3>1 DEF Stacked
  <2> QED
    BY <2>2, <2>8
<1>4. CASE p \in patched /\ forward = p /\ Unpatch(p)
  <2>0. Len(st) > 0 /\ st[1] = p
    <3>1. PICK i \in 1 .. Len(st) : st[i] = p
      BY <1>4 DEF Stacked
    <3>2. Len(st) # 0
      BY <1>1, <3>1
    <3> QED
      BY <1>1, <1>4, <3>2 DEF Stacked
  <2> DEFINE new == Tail(st)
  <2>1. /\ new \in Seq(Engines) /\ Len(new) = Len(st) - 1
        /\ \A i \in 1 .. Len(new) : new[i] = st[i + 1]
    <3>1. st \in Seq(Engines) /\ st # <<>>
      BY <2>0 DEF Stacked
    <3> QED
      BY <3>1, HeadTailProperties
  <2> HIDE DEF new
  <2>2. original[p] = IF 1 < Len(st) THEN st[2] ELSE "vllm"
    BY <1>1, <2>0 DEF Stacked
  <2>3. original[p] # "none"
    <3>1. 1 < Len(st) => st[2] \in Engines
      BY <1>1
    <3> QED
      BY <2>2, <3>1 DEF FrontAssumption
  <2>4. forward' = original[p] /\ patched' = patched \ {p} /\ original' = original
    BY <1>4, <2>3 DEF Unpatch
  <2>5. \A i, j \in 1 .. Len(new) : new[i] = new[j] => i = j
    <3> SUFFICES ASSUME NEW i \in 1 .. Len(new), NEW j \in 1 .. Len(new), new[i] = new[j] PROVE i = j
      OBVIOUS
    <3>1. i + 1 \in 1 .. Len(st) /\ j + 1 \in 1 .. Len(st) /\ st[i + 1] = st[j + 1]
      BY <1>1, <2>0, <2>1
    <3>2. i + 1 = j + 1
      BY <3>1 DEF Stacked
    <3> QED
      BY <3>2
  <2>6. patched' = {new[i] : i \in 1 .. Len(new)}
    <3>1. ASSUME NEW x \in patched' PROVE \E i \in 1 .. Len(new) : new[i] = x
      <4>1. PICK i \in 1 .. Len(st) : st[i] = x
        BY <2>4 DEF Stacked
      <4>2. i # 1
        BY <2>0, <2>4, <4>1
      <4>3. i - 1 \in 1 .. Len(new) /\ (i - 1) + 1 = i
        BY <1>1, <2>1, <4>2
      <4> QED
        BY <2>1, <4>1, <4>3
    <3>2. ASSUME NEW i \in 1 .. Len(new) PROVE new[i] \in patched'
      <4>1. i + 1 \in 1 .. Len(st) /\ 1 \in 1 .. Len(st) /\ i + 1 # 1 /\ new[i] = st[i + 1]
        BY <1>1, <2>0, <2>1
      <4>2. st[i + 1] \in patched
        BY <4>1 DEF Stacked
      <4>3. st[i + 1] # st[1]
        BY <4>1 DEF Stacked
      <4> QED
        BY <2>0, <2>4, <4>1, <4>2, <4>3
    <3> QED
      BY <3>1, <3>2
  <2>7. ASSUME NEW i \in 1 .. Len(new)
        PROVE  original'[new[i]] = IF i < Len(new) THEN new[i + 1] ELSE "vllm"
    <3>1. i + 1 \in 1 .. Len(st) /\ new[i] = st[i + 1]
      BY <1>1, <2>0, <2>1
    <3>2. original[st[i + 1]] = IF i + 1 < Len(st) THEN st[(i + 1) + 1] ELSE "vllm"
      BY <3>1 DEF Stacked
    <3>3. i < Len(new) <=> i + 1 < Len(st)
      BY <1>1, <2>1
    <3>4. i < Len(new) => new[i + 1] = st[(i + 1) + 1]
      BY <1>1, <2>1
    <3> QED
      BY <2>4, <3>1, <3>2, <3>3, <3>4
  <2>8. forward' = IF Len(new) = 0 THEN "vllm" ELSE new[1]
    <3>1. ASSUME Len(new) # 0 PROVE new[1] = st[2] /\ 1 < Len(st)
      <4>1. 1 \in 1 .. Len(new) /\ 1 + 1 = 2 /\ 1 < Len(st)
        BY <1>1, <2>0, <2>1, <3>1
      <4>2. new[1] = st[1 + 1]
        BY <2>1, <4>1
      <4> QED
        BY <4>1, <4>2
    <3>2. Len(new) = 0 => ~(1 < Len(st))
      <4>1. Len(new) = 0 => Len(st) - 1 = 0
        BY <2>1
      <4>2. \A k \in Nat : k - 1 = 0 => ~(1 < k)
        OBVIOUS
      <4> QED
        BY <1>0, <4>1, <4>2, Zenon
    <3> QED
      BY <2>2, <2>4, <3>1, <3>2
  <2>9. Stacked(new)'
    BY <2>1, <2>5, <2>6, <2>7, <2>8 DEF Stacked
  <2> QED
    BY <2>4, <2>9
<1>5. \/ UNCHANGED <<forward, original, patched>>
      \/ Patch(p) /\ p \notin patched
      \/ p \in patched /\ forward = p /\ Unpatch(p)
  BY DEF Patch, Unpatch
<1> QED
  BY <1>2, <1>3, <1>4, <1>5

(* What the operations on a buffer leave of it.                            *)
LEMMA BufferAppends ==
  ASSUME NEW b, DOMAIN b = BufferParts, NEW step, NEW r, r = Appended(b, step)
  PROVE  DOMAIN r = BufferParts /\ r.steps = Append(b.steps, step) /\ r.valid = FALSE
BY DEF Appended, BufferParts

LEMMA BufferEmpties ==
  ASSUME NEW b, DOMAIN b = BufferParts, NEW r, r = ResetOf(b)
  PROVE  DOMAIN r = BufferParts /\ r.steps = <<>> /\ r.valid = FALSE
BY DEF ResetOf, BufferParts

LEMMA BufferRead ==
  ASSUME NEW b, DOMAIN b = BufferParts, NEW d
  PROVE  LET r == [b EXCEPT !.cached = d, !.valid = TRUE]
         IN  DOMAIN r = BufferParts /\ r.steps = b.steps /\ r.cached = d /\ r.valid = TRUE
BY DEF BufferParts

(* A decode step reaches the buffers of all layers.                        *)
LEMMA BuffersKept ==
  ASSUME FrontAssumption, installation.layerIdx, NEW p \in Engines, BufferHolds(p),
         NEW step, buffers'[p] = AfterLayers(p, step), appended'[p] = Append(appended[p], step)
  PROVE  BufferHolds(p)'
<1> DEFINE b == buffers[p]
           old(l) == BufferOf(p, l)
           new == [l \in DOMAIN b \cup AttentionLayers |-> IF l \in AttentionLayers THEN Appended(old(l), step) ELSE b[l]]
<1>1. buffers'[p] = new
  <2>1. buffers[p] = [l \in DOMAIN buffers[p] |-> buffers[p][l]]
    BY DEF BufferHolds
  <2>2. AfterLayers(p, step) = new
    BY <2>1, StepOfLayers
  <2> HIDE DEF new
  <2> QED
    BY <2>2
<1>2. DOMAIN b \subseteq AttentionLayers /\ DOMAIN new = AttentionLayers /\ AttentionLayers' = AttentionLayers
  BY DEF BufferHolds, AttentionLayers
<1>3. ASSUME NEW l \in AttentionLayers
      PROVE  DOMAIN old(l) = BufferParts /\ old(l).steps = appended[p]
  <2>1. CASE l \in DOMAIN b
    BY <2>1 DEF BufferHolds, BufferOf
  <2>2. CASE l \notin DOMAIN b
    <3>1. appended[p] = <<>>
      BY <2>2 DEF BufferHolds
    <3>2. old(l) = NewBuffer(p, l)
      BY <2>2 DEF BufferOf
    <3> HIDE DEF old
    <3> QED
      BY <3>1, <3>2 DEF NewBuffer, BufferParts
  <2> QED
    BY <2>1, <2>2
<1> HIDE DEF old
<1>4. ASSUME NEW l \in AttentionLayers
      PROVE  new[l] = Appended(old(l), step)
  BY <1>2
<1>5. new = [l \in DOMAIN new |-> new[l]]
  OBVIOUS
<1>6. appended'[p] = Append(appended[p], step)
  OBVIOUS
<1> HIDE DEF new, b
<1>7. ASSUME NEW l \in AttentionLayers
      PROVE  /\ DOMAIN new[l] = BufferParts /\ new[l].steps = appended'[p] /\ new[l].valid = FALSE
  <2>1. PICK o : o = old(l)
    OBVIOUS
  <2>2. PICK r : r = Appended(o, step)
    OBVIOUS
  <2>3. DOMAIN o = BufferParts /\ o.steps = appended[p]
    BY <1>3, <2>1
  <2>4. DOMAIN o = BufferParts
    BY <2>3
  <2>5. DOMAIN r = BufferParts /\ r.steps = Append(o.steps, step) /\ r.valid = FALSE
    BY <2>2, <2>4, BufferAppends
  <2>6. new[l] = r
    BY <1>4, <2>1, <2>2
  <2> QED
    BY <1>6, <2>3, <2>5, <2>6
<1> QED
  BY <1>1, <1>2, <1>5, <1>7 DEF BufferHolds

(* Who is not in the chain keeps what it had.                              *)
LEMMA SameBuffers ==
  ASSUME NEW p, BufferHolds(p), buffers'[p] = buffers[p], appended'[p] = appended[p]
  PROVE  BufferHolds(p)'
BY DEF BufferHolds, AttentionLayers

(* ... every step keeps it ...                                             *)
LEMMA FrontKeeps ==
  ASSUME FrontAssumption, FrontInv, [FrontNext]_frontVars
  PROVE  FrontInv'
<1> USE DEF FrontInv
<1> PICK st : Stacked(st)
  OBVIOUS
<1>1. ASSUME UNCHANGED <<buffers, appended, installation>>, call' = call \/ call'.kind # "read"
      PROVE  /\ DOMAIN buffers' = Engines /\ DOMAIN appended' = Engines
             /\ installation'.layerIdx => \A p \in Engines : BufferHolds(p)'
             /\ BuffersReadBack'
  BY <1>1, SameBuffers DEF BuffersReadBack
<1>2. ASSUME UNCHANGED <<settings, backend>>
      PROVE  DraftsWhenAsked'
  BY <1>2 DEF DraftsWhenAsked
<1>3. ASSUME UNCHANGED <<forward, original, patched>> PROVE \E s : Stacked(s)'
  <2>1. Stacked(st)'
    BY <1>3 DEF Stacked
  <2> QED
    BY <2>1
<1>4. ASSUME NEW e \in Engines, Load(e) PROVE FrontInv'
  <2>1. UNCHANGED <<settings, installation, buffers, appended>> /\ call'.kind = "none"
    BY <1>4 DEF Load
  <2>2. Patch(e) \/ UNCHANGED <<forward, original, patched>>
    BY <1>4 DEF Load
  <2>3. DOMAIN original' = Engines /\ \E s : Stacked(s)'
    BY <2>2, StackKept
  <2>4. DOMAIN backend' = Engines /\ DraftsWhenAsked'
    <3>1. settings[e].speculative \in BOOLEAN
      BY DEF FrontAssumption
    <3>2. PICK n : /\ backend' = [backend EXCEPT ![e] = n]
                   /\ settings[e].speculative => n.kind = "hf" /\ n.drafts
      <4>1. CASE ShouldUseVllm(e)
        BY <1>4, <3>1, <4>1 DEF Load, ShouldUseVllm
      <4>2. CASE ~ShouldUseVllm(e)
        <5>1. backend' = [backend EXCEPT ![e] = HfBackend(e)]
          BY <1>4, <4>2 DEF Load
        <5>2. settings[e].speculative => HfBackend(e).kind = "hf" /\ HfBackend(e).drafts
          BY DEF HfBackend
        <5> QED
          BY <5>1, <5>2
      <4> QED
        BY <4>1, <4>2
    <3>3. DOMAIN backend' = Engines /\ backend'[e] = n /\ \A f \in Engines \ {e} : backend'[f] = backend[f]
      BY <3>2
    <3>4. ASSUME NEW f \in Engines, settings'[f].speculative, backend'[f].kind # "none"
          PROVE  backend'[f].kind = "hf" /\ backend'[f].drafts
      BY <2>1, <3>2, <3>3, <3>4 DEF DraftsWhenAsked
    <3> QED
      BY <3>3, <3>4 DEF DraftsWhenAsked
  <2> QED
    BY <1>1, <2>1, <2>3, <2>4
<1>5. ASSUME NEW e \in Engines, Repatch(e) PROVE FrontInv'
  <2>1. UNCHANGED <<settings, installation, backend, buffers, appended>> /\ call'.kind = "none"
    BY <1>5 DEF Repatch
  <2>2. Patch(e) \/ (forward = e /\ Unpatch(e))
    BY <1>5 DEF Repatch
  <2>3. DOMAIN original' = Engines /\ \E s : Stacked(s)'
    BY <2>2, StackKept
  <2> QED
    BY <1>1, <1>2, <2>1, <2>3
<1>6. ASSUME NEW e \in Engines, Decode(e) PROVE FrontInv'
  <2>1. UNCHANGED <<settings, installation, backend, forward, original, patched>> /\ call'.kind = "none"
    BY <1>6 DEF Decode
  <2>2. DOMAIN buffers' = Engines /\ DOMAIN appended' = Engines
    BY <1>6 DEF Decode
  <2>3. ASSUME installation.layerIdx, NEW p \in Engines PROVE BufferHolds(p)'
    <3>1. CASE p \in Passed
      <4>1. buffers'[p] = AfterLayers(p, steps + 1) /\ appended'[p] = Append(appended[p], steps + 1)
        BY <1>6, <3>1 DEF Decode
      <4> QED
        BY <2>3, <4>1, BuffersKept
    <3>2. CASE p \notin Passed
      <4>1. buffers'[p] = buffers[p] /\ appended'[p] = appended[p]
        BY <1>6, <3>2 DEF Decode
      <4> QED
        BY <2>3, <4>1, SameBuffers
    <3> QED
      BY <3>1, <3>2
  <2>4. BuffersReadBack'
    BY <2>1 DEF BuffersReadBack
  <2> QED
    BY <1>2, <1>3, <2>1, <2>2, <2>3, <2>4
<1>7. ASSUME NEW e \in Engines, FrontGenerate(e) \/ GenerateParam2(e) \/ Stats(e) PROVE FrontInv'
  <2>1. UNCHANGED <<settings, installation, backend, forward, original, patched, buffers, appended>>
    BY <1>7 DEF FrontGenerate, GenerateParam2, Stats
  <2>2. call'.kind # "read"
    BY <1>7 DEF FrontGenerate, GenerateParam2, Stats
  <2> QED
    BY <1>1, <1>2, <1>3, <2>1, <2>2
<1>8. ASSUME NEW e \in Engines, ResetBuffers(e) PROVE FrontInv'
  <2>1. UNCHANGED <<settings, installation, backend, forward, original, patched>> /\ call'.kind = "none"
    BY <1>8 DEF ResetBuffers
  <2>2. /\ DOMAIN buffers' = Engines /\ DOMAIN appended' = Engines
        /\ buffers'[e] = [l \in DOMAIN buffers[e] |-> ResetOf(buffers[e][l])] /\ appended'[e] = <<>>
        /\ \A p \in Engines \ {e} : buffers'[p] = buffers[p] /\ appended'[p] = appended[p]
    BY <1>8 DEF ResetBuffers
  <2>3. ASSUME installation.layerIdx, NEW p \in Engines PROVE BufferHolds(p)'
    <3>1. CASE p = e
      <4> DEFINE new == [l \in DOMAIN buffers[e] |-> ResetOf(buffers[e][l])]
      <4>1. new = [l \in DOMAIN new |-> new[l]] /\ DOMAIN new = DOMAIN buffers[e]
        OBVIOUS
      <4>2. ASSUME NEW l \in DOMAIN new
            PROVE  DOMAIN new[l] = BufferParts /\ new[l].steps = <<>> /\ new[l].valid = FALSE
        <5> DEFINE b == buffers[e][l]
        <5>1. DOMAIN b = BufferParts
          BY <2>3 DEF BufferHolds
        <5>2. new[l] = ResetOf(b)
          OBVIOUS
        <5> HIDE DEF b, new
        <5> QED
          BY <5>1, <5>2, BufferEmpties
      <4>3. buffers'[p] = new /\ appended'[p] = <<>> /\ AttentionLayers' = AttentionLayers
        BY <2>2, <3>1 DEF AttentionLayers
      <4>4. DOMAIN new = AttentionLayers \/ DOMAIN new = {}
        BY <2>3, <4>1 DEF BufferHolds
      <4> HIDE DEF new
      <4> QED
        BY <4>1, <4>2, <4>3, <4>4 DEF BufferHolds
    <3>2. CASE p # e
      BY <2>2, <2>3, <3>2, SameBuffers
    <3> QED
      BY <3>1, <3>2
  <2>4. BuffersReadBack'
    BY <2>1 DEF BuffersReadBack
  <2> QED
    BY <1>2, <1>3, <2>1, <2>2, <2>3, <2>4
<1>9. ASSUME NEW e \in Engines, NEW l \in DOMAIN buffers[e], GetAll(e, l) PROVE FrontInv'
  <2> DEFINE b == buffers[e][l]
             cat == IF b.valid THEN b.cached ELSE b.steps
             new == [b EXCEPT !.cached = cat, !.valid = TRUE]
  <2>1. UNCHANGED <<settings, installation, backend, forward, original, patched, appended>>
    BY <1>9 DEF GetAll
  <2>2. /\ call' = [kind |-> "read", of |-> e, layer |-> l, got |-> IF b.steps = <<>> THEN <<>> ELSE cat]
        /\ buffers' = IF b.steps = <<>> THEN buffers ELSE [buffers EXCEPT ![e][l] = new]
    BY <1>9, Zenon DEF GetAll
  <2>3. DOMAIN buffers' = Engines
    BY <2>2
  <2>4. ASSUME installation.layerIdx
        PROVE  /\ \A p \in Engines : BufferHolds(p)'
               /\ b.steps = appended[e] /\ cat = b.steps
               /\ l \in DOMAIN buffers'[e] /\ buffers'[e][l].steps = b.steps
    <3>1. BufferHolds(e)
      BY <2>4
    <3>2. DOMAIN b = BufferParts /\ b.steps = appended[e] /\ b.valid \in BOOLEAN /\ cat = b.steps
      BY <3>1 DEF BufferHolds
    <3>3. CASE b.steps = <<>>
      <4>1. buffers' = buffers
        BY <2>2, <3>3
      <4> QED
        BY <2>1, <2>4, <3>2, <4>1, SameBuffers
    <3>4. CASE b.steps # <<>>
      <4>1. buffers' = [buffers EXCEPT ![e] = [buffers[e] EXCEPT ![l] = new]]
        <5> HIDE DEF new
        <5> QED
          BY <2>2, <3>4
      <4>2. DOMAIN new = BufferParts /\ new.steps = appended[e] /\ new.cached = cat /\ new.valid = TRUE
        <5> HIDE DEF b, cat
        <5> QED
          BY <3>2, BufferRead
      <4> HIDE DEF new, cat
      <4> DEFINE mine == [buffers[e] EXCEPT ![l] = new]
      <4>3. /\ mine = [m \in DOMAIN mine |-> mine[m]] /\ DOMAIN mine = DOMAIN buffers[e]
            /\ mine[l] = new /\ \A m \in DOMAIN mine \ {l} : mine[m] = buffers[e][m]
        OBVIOUS
      <4>4. buffers'[e] = mine /\ \A p \in Engines \ {e} : buffers'[p] = buffers[p]
        BY <4>1
      <4> HIDE DEF mine
      <4>7. ASSUME NEW m \in DOMAIN mine
            PROVE  /\ DOMAIN mine[m] = BufferParts /\ mine[m].steps = appended[e]
                   /\ mine[m].valid \in BOOLEAN
                   /\ mine[m].valid => mine[m].cached = mine[m].steps
        <5>1. CASE m = l
          <6>1. mine[m] = new /\ cat = appended[e]
            BY <3>2, <4>3, <5>1
          <6> QED
            BY <4>2, <6>1
        <5>2. CASE m # l
          <6>1. m \in DOMAIN buffers[e] /\ mine[m] = buffers[e][m]
            BY <4>3, <5>2
          <6> QED
            BY <3>1, <6>1 DEF BufferHolds
        <5> QED
          BY <5>1, <5>2
      <4>8. BufferHolds(e)'
        <5>1. appended'[e] = appended[e] /\ AttentionLayers' = AttentionLayers
          BY <2>1 DEF AttentionLayers
        <5>2. DOMAIN mine = AttentionLayers \/ (DOMAIN mine = {} /\ appended[e] = <<>>)
          BY <3>1, <4>3 DEF BufferHolds
        <5> QED
          BY <4>3, <4>4, <4>7, <5>1, <5>2 DEF BufferHolds
      <4>9. \A p \in Engines : BufferHolds(p)'
        BY <2>1, <2>4, <4>4, <4>8, SameBuffers
      <4> QED
        BY <3>2, <4>2, <4>3, <4>4, <4>9
    <3> QED
      BY <3>3, <3>4
  <2>5. BuffersReadBack'
    <3> SUFFICES ASSUME installation.layerIdx
                 PROVE  call'.got = buffers'[e][l].steps /\ call'.got = appended'[e]
      BY <2>1, <2>2 DEF BuffersReadBack
    <3>1. call'.got = IF b.steps = <<>> THEN <<>> ELSE cat
      BY <2>2
    <3> QED
      BY <2>1, <2>4, <3>1
  <2> QED
    BY <1>2, <1>3, <2>1, <2>3, <2>4, <2>5
<1>10. CASE UNCHANGED frontVars
  BY <1>1, <1>2, <1>3, <1>10 DEF frontVars
<1> QED
  BY <1>4, <1>5, <1>6, <1>7, <1>8, <1>9, <1>10 DEF FrontNext

(* ... and it is what engines that share the attention need.               *)
LEMMA FrontInvSuffices ==
  ASSUME FrontAssumption, FrontInv
  PROVE  EnginesShareAttention
<1> PICK st : Stacked(st)
  BY DEF FrontInv
<1> DEFINE n == Cardinality(Engines) + 1
           at(k) == IF k < Len(st) THEN st[k + 1] ELSE "vllm"
<1>1. Chain = [k \in 0 .. n |-> at(k)]
  BY ChainRuns
<1>2. Len(st) \in Nat /\ \A i \in 1 .. Len(st) : st[i] \in Engines
  BY ElementOfSeq, LenProperties DEF Stacked
<1>3. n \in Nat /\ Len(st) < n
  <2>1. Len(st) <= Cardinality(Engines) /\ Cardinality(Engines) \in Nat
    BY InjectiveLength, FS_CardinalityType DEF Stacked, FrontAssumption
  <2> QED
    BY <1>2, <2>1
<1> HIDE DEF n
<1>4. ChainEnds
  BY <1>1, <1>2, <1>3 DEF ChainEnds, n
<1>5. Passed = patched
  <2>1. ASSUME NEW k \in 0 .. n, Chain[k] \in Engines PROVE Chain[k] \in patched
    <3>1. k < Len(st) /\ Chain[k] = st[k + 1]
      BY <1>1, <2>1 DEF FrontAssumption
    <3>2. k + 1 \in 1 .. Len(st)
      BY <1>2, <1>3, <3>1
    <3> QED
      BY <3>1, <3>2 DEF Stacked
  <2>2. ASSUME NEW p \in patched PROVE \E k \in 0 .. n : Chain[k] = p /\ p \in Engines
    <3>1. PICK i \in 1 .. Len(st) : st[i] = p
      BY DEF Stacked
    <3>2. i - 1 \in 0 .. n /\ i - 1 < Len(st) /\ (i - 1) + 1 = i
      BY <1>2, <1>3
    <3>3. Chain[i - 1] = p
      BY <1>1, <3>1, <3>2
    <3> QED
      BY <1>2, <3>1, <3>2, <3>3
  <2>3. DOMAIN Chain = 0 .. n
    BY <1>1
  <2> HIDE DEF at
  <2> QED
    BY <2>1, <2>2, <2>3 DEF Passed
<1>6. ASSUME NEW j \in DOMAIN Chain, NEW k \in DOMAIN Chain, j < k, Chain[j] = Chain[k]
      PROVE  Chain[j] = "vllm"
  <2>1. j \in 0 .. n /\ k \in 0 .. n
    BY <1>1
  <2>2. Chain[j] = at(j) /\ Chain[k] = at(k)
    BY <1>1, <2>1
  <2>3. CASE k < Len(st)
    <3>1. j + 1 \in 1 .. Len(st) /\ k + 1 \in 1 .. Len(st) /\ j + 1 # k + 1 /\ j < Len(st)
      BY <1>2, <1>3, <1>6, <2>1, <2>3
    <3>2. st[j + 1] # st[k + 1]
      BY <3>1 DEF Stacked
    <3> QED
      BY <1>6, <2>2, <2>3, <3>1, <3>2
  <2>4. CASE ~(k < Len(st))
    BY <1>6, <2>2, <2>4
  <2> QED
    BY <2>3, <2>4
<1>7. PatchesNest
  BY <1>4, <1>5, <1>6 DEF PatchesNest
<1> QED
  BY <1>7 DEF FrontInv, EnginesShareAttention

(***************************************************************************)
(* Engines share the attention of their process: for any engines, layers   *)
(* and numbers of steps, a call passes every patch that is on exactly once *)
(* and ends in vLLM's own forward, whatever was patched, failed to start   *)
(* and was taken off before; what is read back from a buffer is what was   *)
(* decoded since the last reset; and who asked for a draft model has one.  *)
(***************************************************************************)
THEOREM AlwaysShareAttention == MCEngineSpec => []EnginesShareAttention
<1>1. MCEngineInit => FrontInv
  BY FrontStarts, FrontAssumption DEF MCEngineInit
<1>2. FrontInv /\ [MCEngineNext]_mcVars => FrontInv'
  <2>1. [MCEngineNext]_mcVars => [FrontNext]_frontVars
    BY DEF MCEngineNext, mcVars
  <2> QED
    BY <2>1, FrontKeeps, FrontAssumption
<1>3. FrontInv => EnginesShareAttention
  BY FrontInvSuffices, FrontAssumption
<1> QED
  BY <1>1, <1>2, <1>3, PTL DEF MCEngineSpec

-----------------------------------------------------------------------------
(* The compressed cache *)

(* The columns of a cache, the tensors of one layer, and those whose rows  *)
(* are where the pointer says.                                             *)
KvColumns == [pos : Nat, exact : BOOLEAN]
Tensors == [batch : Nat, idx : Seq(KvColumns), ptr : Nat, win : Seq(KvColumns), dec : Seq(KvColumns)]
Stores == {s \in Tensors : s.ptr <= Len(s.idx)}

(* What the storage grows by.                                              *)
LEMMA Grows == ASSUME NEW n \in Nat, KvAssumption PROVE Larger(Extra, n \div 2) \in Nat \ {0}
<1>1. n \div 2 \in Nat /\ Extra \in Nat \ {0}
  BY DEF KvAssumption
<1> DEFINE half == n \div 2
<1>2. half \in Nat
  BY <1>1
<1> HIDE DEF half
<1>3. Larger(Extra, half) \in Nat \ {0}
  BY <1>1, <1>2 DEF Larger
<1> QED
  BY <1>3 DEF half

(* One turn of the loop: the next row holds the column, the others stay.   *)
LEMMA CompressedRow ==
  ASSUME KvAssumption, NEW s \in Stores, NEW column \in KvColumns
  PROVE  LET d == Compressed(s, column)
         IN  /\ d \in Stores
             /\ d.batch = s.batch /\ d.win = s.win /\ d.dec = s.dec /\ d.ptr = s.ptr + 1
             /\ d.idx[s.ptr + 1] = Quantized(column)
             /\ \A i \in 1 .. s.ptr : d.idx[i] = s.idx[i]
<1> DEFINE m == Larger(Extra, Len(s.idx) \div 2)
           more == [i \in 1 .. m |-> Blank]
           idx == IF s.ptr >= Len(s.idx) THEN s.idx \o more ELSE s.idx
           new == [idx EXCEPT ![s.ptr + 1] = Quantized(column)]
<1>1. s.ptr \in Nat /\ s.idx \in Seq(KvColumns) /\ Len(s.idx) \in Nat /\ s.ptr <= Len(s.idx)
  BY LenProperties DEF Stores, Tensors
<1>2. m \in Nat \ {0}
  BY <1>1, Grows
<1> HIDE DEF m
<1>3. more \in Seq(KvColumns) /\ Len(more) = m
  <2>1. \A i \in 1 .. m : Blank \in KvColumns
    BY DEF Blank, KvColumns
  <2>2. more \in [1 .. m -> KvColumns]
    BY <2>1
  <2> QED
    BY <1>2, <2>2, SeqDef, LenProperties
<1> HIDE DEF more
<1>4. /\ idx \in Seq(KvColumns) /\ Len(idx) \in Nat /\ s.ptr + 1 \in 1 .. Len(idx)
      /\ \A i \in 1 .. s.ptr : idx[i] = s.idx[i]
  BY <1>1, <1>2, <1>3, ConcatProperties
<1> HIDE DEF idx
<1>5. Quantized(column) \in KvColumns
  BY DEF Quantized, KvColumns
<1>6. /\ new \in Seq(KvColumns) /\ Len(new) = Len(idx)
      /\ new[s.ptr + 1] = Quantized(column)
      /\ \A i \in 1 .. s.ptr : new[i] = s.idx[i]
  BY <1>1, <1>4, <1>5, ExceptSeq
<1> HIDE DEF new
<1>7. Compressed(s, column) = [s EXCEPT !.idx = new, !.ptr = @ + 1]
  BY DEF Compressed, new, idx, more, m
<1> DEFINE d == Compressed(s, column)
<1>8. /\ d \in Tensors
      /\ d.batch = s.batch /\ d.win = s.win /\ d.dec = s.dec /\ d.ptr = s.ptr + 1 /\ d.idx = new
  <2>1. PICK q \in Nat : q = s.ptr + 1
    BY <1>1
  <2>2. d = [s EXCEPT !.idx = new, !.ptr = q] /\ s \in Tensors
    BY <1>7, <2>1 DEF Stores
  <2> HIDE DEF d
  <2>3. PICK x \in Seq(KvColumns) : x = new
    BY <1>6
  <2>4. d = [s EXCEPT !.idx = x, !.ptr = q]
    BY <2>2, <2>3
  <2>t. s \in Tensors
    BY <2>2
  <2>5. d \in Tensors /\ d.batch = s.batch /\ d.win = s.win /\ d.dec = s.dec /\ d.ptr = q /\ d.idx = x
    BY <2>4, <2>t DEF Tensors
  <2> QED
    BY <2>1, <2>3, <2>5
<1> QED
  BY <1>1, <1>4, <1>6, <1>8 DEF Stores

(* The stores between the turns of the loop.                               *)
LEMMA CompressedRuns ==
  ASSUME KvAssumption, NEW s \in Stores, NEW chunk \in Seq(KvColumns)
  PROVE  \E r : /\ r[0] = s /\ FoldLeft(Compressed, s, chunk) = r[Len(chunk)]
                /\ \A k \in 0 .. Len(chunk) : r[k] \in Stores
                /\ \A k \in 1 .. Len(chunk) : r[k] = Compressed(r[k - 1], chunk[k])
<1> DEFINE n == Len(chunk)
           step == [x \in (1 .. n) \X Stores |-> Compressed(x[2], chunk[x[1]])]
           Next(g) == [T \in SUBSET DOMAIN chunk |-> IF T = {} THEN s ELSE Compressed(g[T \ {Max(T)}], chunk[Max(T)])]
           table == CHOOSE g : g = Next(g)
           r == [k \in 0 .. n |-> table[1 .. k]]
<1>1. n \in Nat /\ DOMAIN chunk = 1 .. n /\ \A k \in 1 .. n : chunk[k] \in KvColumns
  BY LenProperties, ElementOfSeq
<1>2. FoldLeft(Compressed, s, chunk) = table[1 .. n]
  BY <1>1 DEF FoldLeft, MapThenFoldSet
<1> HIDE DEF n
<1>3. Advances(step, 1 .. n, Stores)
  BY <1>1, CompressedRow DEF Advances
<1>4. PICK h : FoldTabulates(h, n, Stores, s, step)
  BY <1>1, <1>3, FoldTable
<1>5. h = Next(h)
  <2>1. ASSUME NEW T \in SUBSET (1 .. n), T # {} PROVE h[T] = Compressed(h[T \ {Max(T)}], chunk[Max(T)])
    <3>1. Max(T) \in 1 .. n /\ h[T \ {Max(T)}] \in Stores /\ h[T] = step[<<Max(T), h[T \ {Max(T)}]>>]
      BY <1>4, <2>1 DEF FoldTabulates
    <3> QED
      BY <3>1
  <2> QED
    BY <1>1, <1>4, <2>1 DEF FoldTabulates
<1>6. table = Next(table)
  BY <1>5
<1> HIDE DEF table
<1>7. table[{}] = s
  BY <1>6
<1>8. ASSUME NEW k \in 1 .. n PROVE table[1 .. k] = Compressed(table[1 .. k - 1], chunk[k])
  <2>1. k \in Nat \ {0} /\ 1 .. k # {} /\ 1 .. k \in SUBSET DOMAIN chunk
    <3>1. k \in Nat \ {0} /\ k \in 1 .. k /\ 1 .. k \subseteq 1 .. n
      BY <1>1
    <3> QED
      BY <1>1, <3>1
  <2>2. Max(1 .. k) = k /\ (1 .. k) \ {k} = 1 .. k - 1
    BY <2>1, MaxOfFirst
  <2> QED
    BY <1>6, <2>1, <2>2
<1>9. \A k \in 0 .. n : table[1 .. k] \in Stores
  <2> DEFINE G == {k \in 0 .. n : table[1 .. k] \in Stores}
  <2>1. 0 \in G
    <3>1. 1 .. 0 = {}
      OBVIOUS
    <3> QED
      BY <1>1, <1>7, <3>1
  <2>2. ASSUME NEW k \in 1 .. n, k - 1 \in G PROVE k \in G
    BY <1>1, <1>8, <2>2, CompressedRow
  <2> HIDE DEF G
  <2>3. \A k \in 0 .. n : k \in G
    BY <1>1, <2>1, <2>2, Upwards
  <2> QED
    BY <2>3 DEF G
<1>10. r[0] = s
  <2>1. 1 .. 0 = {}
    OBVIOUS
  <2> QED
    BY <1>1, <1>7, <2>1
<1>11. \A k \in 1 .. n : r[k] = Compressed(r[k - 1], chunk[k])
  <2> SUFFICES ASSUME NEW k \in 1 .. n PROVE r[k] = Compressed(r[k - 1], chunk[k])
    OBVIOUS
  <2>1. k \in 0 .. n /\ k - 1 \in 0 .. n
    BY <1>1
  <2> QED
    BY <1>8, <2>1
<1>12. FoldLeft(Compressed, s, chunk) = r[n] /\ \A k \in 0 .. n : r[k] \in Stores
  BY <1>1, <1>2, <1>9
<1> QED
  BY <1>10, <1>11, <1>12 DEF n

(* Rows of the storage that were written in a row.                         *)
Written(r, s, chunk, k) ==
  /\ r.batch = s.batch /\ r.win = s.win /\ r.dec = s.dec /\ r.ptr = s.ptr + k
  /\ \A i \in 1 .. s.ptr : r.idx[i] = s.idx[i]
  /\ \A j \in 1 .. k : r.idx[s.ptr + j] = Quantized(chunk[j])

(* After the loop the chunk is behind what was there.                      *)
LEMMA ChunkWritten ==
  ASSUME KvAssumption, NEW s \in Stores, NEW chunk \in Seq(KvColumns)
  PROVE  LET d == FoldLeft(Compressed, s, chunk)
         IN  d \in Stores /\ Written(d, s, chunk, Len(chunk))
<1> DEFINE n == Len(chunk)
<1>1. n \in Nat /\ \A k \in 1 .. n : chunk[k] \in KvColumns
  BY LenProperties, ElementOfSeq
<1>2. PICK r : /\ r[0] = s /\ FoldLeft(Compressed, s, chunk) = r[n]
               /\ \A k \in 0 .. n : r[k] \in Stores
               /\ \A k \in 1 .. n : r[k] = Compressed(r[k - 1], chunk[k])
  BY CompressedRuns
<1> HIDE DEF n
<1> DEFINE G == {k \in 0 .. n : Written(r[k], s, chunk, k)}
<1>3. 0 \in G
  <2>1. s.ptr \in Nat
    BY DEF Stores, Tensors
  <2> QED
    BY <1>1, <1>2, <2>1 DEF Written
<1>4. ASSUME NEW k \in 1 .. n, k - 1 \in G PROVE k \in G
  <2>1. PICK q \in Stores : q = r[k - 1]
    BY <1>1, <1>2
  <2>2. PICK c \in KvColumns : c = chunk[k]
    BY <1>1
  <2>3. PICK d : d = Compressed(q, c)
    OBVIOUS
  <2>4. d = r[k]
    BY <1>2, <2>1, <2>2, <2>3
  <2>5. /\ d.batch = q.batch /\ d.win = q.win /\ d.dec = q.dec /\ d.ptr = q.ptr + 1
        /\ d.idx[q.ptr + 1] = Quantized(c)
        /\ \A i \in 1 .. q.ptr : d.idx[i] = q.idx[i]
    BY <2>3, CompressedRow
  <2>6. Written(q, s, chunk, k - 1) /\ s.ptr \in Nat
    BY <1>4, <2>1 DEF Stores, Tensors
  <2>7. q.ptr = s.ptr + (k - 1) /\ k \in Nat \ {0} /\ q.ptr + 1 = s.ptr + k
    BY <1>1, <2>6 DEF Written
  <2>8. \A i \in 1 .. s.ptr : d.idx[i] = s.idx[i]
    BY <2>5, <2>6, <2>7 DEF Written
  <2>9. ASSUME NEW j \in 1 .. k PROVE d.idx[s.ptr + j] = Quantized(chunk[j])
    <3>1. CASE j = k
      BY <2>2, <2>5, <2>7, <3>1
    <3>2. CASE j # k
      <4>1. j \in 1 .. k - 1 /\ s.ptr + j \in 1 .. q.ptr
        BY <2>6, <2>7, <2>9, <3>2
      <4> QED
        BY <2>5, <2>6, <4>1 DEF Written
    <3> QED
      BY <3>1, <3>2
  <2>10. Written(d, s, chunk, k)
    BY <2>5, <2>6, <2>7, <2>8, <2>9 DEF Written
  <2> QED
    BY <2>4, <2>10
<1> HIDE DEF G
<1>5. \A k \in 0 .. n : k \in G
  BY <1>1, <1>3, <1>4, Upwards
<1>6. n \in 0 .. n
  BY <1>1
<1>7. r[n] \in Stores /\ Written(r[n], s, chunk, n)
  BY <1>2, <1>5, <1>6 DEF G
<1> QED
  BY <1>2, <1>7 DEF n

(* A store whose rows are what was decoded from them.                      *)
StoreHolds(s) ==
  /\ s \in Stores
  /\ Len(s.dec) = s.ptr
  /\ \A i \in 1 .. s.ptr : s.dec[i] = s.idx[i]
  /\ s.batch = 0 => s.idx = << >>

(* The elements of a sequence behind the first m.                          *)
LEMMA SliceOf ==
  ASSUME NEW S, NEW s \in Seq(S), NEW m \in Nat, NEW n \in Nat, m + n <= Len(s)
  PROVE  LET t == SubSeq(s, m + 1, m + n)
         IN  t \in Seq(S) /\ Len(t) = n /\ \A i \in 1 .. n : t[i] = s[m + i]
<1>1. Len(s) \in Nat /\ \A i \in 1 .. Len(s) : s[i] \in S
  BY LenProperties, ElementOfSeq
<1>2. \A i \in m + 1 .. m + n : s[i] \in S
  BY <1>1
<1>3. PICK a \in Int, b \in Int : a = m + 1 /\ b = m + n
  OBVIOUS
<1>4. \A i \in a .. b : s[i] \in S
  BY <1>2, <1>3
<1> DEFINE t == SubSeq(s, a, b)
<1>5. /\ t \in Seq(S) /\ Len(t) = IF a <= b THEN b - a + 1 ELSE 0
      /\ \A i \in 1 .. b - a + 1 : t[i] = s[a + i - 1]
  BY <1>4, SubSeqProperties
<1> HIDE DEF t
<1>6. b - a + 1 = n /\ (a <= b <=> n > 0) /\ \A i \in 1 .. n : a + i - 1 = m + i
  BY <1>3
<1> QED
  BY <1>3, <1>5, <1>6 DEF t

(* _compress_chunk: what is decoded are the rows that were written.        *)
LEMMA ChunkCompressed ==
  ASSUME KvAssumption, NEW s, StoreHolds(s), s.batch # 0, NEW chunk \in Seq(KvColumns)
  PROVE  LET d == CompressChunk(s, chunk)
         IN  /\ StoreHolds(d)
             /\ d.batch = s.batch /\ d.win = s.win /\ Len(d.dec) = Len(s.dec) + Len(chunk)
             /\ \A i \in 1 .. Len(s.dec) : d.dec[i] = s.dec[i]
             /\ \A j \in 1 .. Len(chunk) : d.dec[Len(s.dec) + j] = Quantized(chunk[j])
<1>1. PICK n \in Nat : n = Len(chunk)
  BY LenProperties
<1>2. s \in Stores /\ s.ptr \in Nat /\ Len(s.dec) = s.ptr /\ s.dec \in Seq(KvColumns)
  BY DEF StoreHolds, Stores, Tensors
<1>3. PICK e : e = FoldLeft(Compressed, s, chunk)
  OBVIOUS
<1>4. e \in Stores /\ Written(e, s, chunk, n)
  BY <1>1, <1>2, <1>3, ChunkWritten
<1>5. e.idx \in Seq(KvColumns) /\ e.ptr <= Len(e.idx) /\ e.ptr = s.ptr + n /\ e.ptr - n + 1 = s.ptr + 1
  BY <1>2, <1>4 DEF Stores, Tensors, Written
<1>p. PICK p \in Nat, x \in Seq(KvColumns), h \in Seq(KvColumns) :
        p = s.ptr /\ x = e.idx /\ h = s.dec /\ Len(h) = p
  BY <1>2, <1>5
<1>q. p + n <= Len(x) /\ e.ptr = p + n /\ e.ptr - n + 1 = p + 1
  BY <1>5, <1>p
<1> DEFINE rows == SubSeq(x, p + 1, p + n)
<1>6. rows \in Seq(KvColumns) /\ Len(rows) = n /\ \A j \in 1 .. n : rows[j] = x[p + j]
  BY <1>q, SliceOf
<1> HIDE DEF rows
<1>7. e.dec = h
  BY <1>4, <1>p DEF Written
<1>8. PICK dec \in Seq(KvColumns) :
        /\ dec = h \o rows /\ Len(dec) = p + n
        /\ \A i \in 1 .. p : dec[i] = h[i]
        /\ \A j \in 1 .. n : dec[p + j] = rows[j]
  <2>1. /\ h \o rows \in Seq(KvColumns) /\ Len(h \o rows) = p + n
        /\ \A i \in 1 .. p + n : (h \o rows)[i] = IF i <= p THEN h[i] ELSE rows[i - p]
    <3>1. PICK t \in Seq(KvColumns) : t = rows
      BY <1>6
    <3>2. /\ h \o t \in Seq(KvColumns) /\ Len(h \o t) = Len(h) + Len(t)
          /\ \A i \in 1 .. Len(h) + Len(t) : (h \o t)[i] = IF i <= Len(h) THEN h[i] ELSE t[i - Len(h)]
      BY ConcatProperties
    <3>3. Len(h) = p
      BY <1>p
    <3>4. Len(t) = n
      BY <3>1, <1>6
    <3> QED
      BY <3>1, <3>2, <3>3, <3>4
  <2> DEFINE dec == h \o rows
  <2> HIDE DEF dec
  <2>2. \A j \in 1 .. n : p + j \in 1 .. p + n /\ ~(p + j <= p) /\ p + j - p = j
    OBVIOUS
  <2>3. /\ dec \in Seq(KvColumns) /\ Len(dec) = p + n
        /\ \A i \in 1 .. p + n : dec[i] = IF i <= p THEN h[i] ELSE rows[i - p]
    BY <2>1 DEF dec
  <2>4. \A i \in 1 .. p : dec[i] = h[i]
    BY <2>3
  <2>5. \A j \in 1 .. n : dec[p + j] = rows[j]
    BY <2>2, <2>3
  <2> QED
    BY <2>3, <2>4, <2>5 DEF dec
<1>9. PICK d : d = CompressChunk(s, chunk)
  OBVIOUS
<1>10. d = [e EXCEPT !.dec = dec]
  BY <1>1, <1>3, <1>p, <1>q, <1>7, <1>8, <1>9 DEF CompressChunk, rows
<1>11. e \in Tensors
  BY <1>4 DEF Stores
<1>12. d \in Tensors /\ d.dec = dec /\ d.batch = e.batch /\ d.win = e.win /\ d.ptr = e.ptr /\ d.idx = e.idx
  BY <1>10, <1>11 DEF Tensors
<1>13. d \in Stores
  BY <1>5, <1>12 DEF Stores
<1>14. ASSUME NEW i \in 1 .. d.ptr PROVE d.dec[i] = d.idx[i]
  <2>1. d.ptr = s.ptr + n
    BY <1>5, <1>12
  <2>2. CASE i \in 1 .. s.ptr
    BY <1>4, <1>p, <1>8, <1>12, <2>2 DEF StoreHolds, Written
  <2>3. CASE i \notin 1 .. s.ptr
    <3>1. i - s.ptr \in 1 .. n /\ s.ptr + (i - s.ptr) = i
      BY <1>2, <1>14, <2>1, <2>3
    <3> QED
      BY <1>p, <1>6, <1>8, <1>12, <3>1
  <2> QED
    BY <2>2, <2>3
<1>15. StoreHolds(d)
  <2>1. Len(d.dec) = d.ptr
    BY <1>q, <1>8, <1>12
  <2>2. d.batch # 0
    BY <1>4, <1>12 DEF Written
  <2> QED
    BY <1>13, <1>14, <2>1, <2>2 DEF StoreHolds
<1>16. \A j \in 1 .. n : d.dec[p + j] = Quantized(chunk[j])
  <2> SUFFICES ASSUME NEW j \in 1 .. n PROVE d.dec[p + j] = Quantized(chunk[j])
    OBVIOUS
  <2>1. d.dec[p + j] = rows[j]
    BY <1>8, <1>12
  <2>2. rows[j] = x[p + j]
    BY <1>6
  <2>3. x[p + j] = Quantized(chunk[j])
    BY <1>4, <1>p DEF Written
  <2> QED
    BY <2>1, <2>2, <2>3
<1>17. d.batch = s.batch /\ d.win = s.win
  BY <1>4, <1>12 DEF Written
<1> QED
  BY <1>1, <1>p, <1>8, <1>9, <1>12, <1>15, <1>16, <1>17

(* What a layer has stored of g columns: the last Window exactly.          *)
Smaller(m, n) == IF m <= n THEN m ELSE n
StoredOf(s, g) ==
  /\ Len(s.win) = Smaller(g, Window)
  /\ Len(s.dec) = g - Smaller(g, Window)
  /\ \A i \in 1 .. Len(s.dec) : s.dec[i] = Quantized(Exact(i))
  /\ \A i \in 1 .. Len(s.win) : s.win[i] = Exact(Len(s.dec) + i)
SeenOf(g) == [i \in 1 .. g |-> IF i > g - Window THEN Exact(i) ELSE Quantized(Exact(i))]

(* Then the whole of it is what a layer should see.                        *)
LEMMA FullOf ==
  ASSUME KvAssumption, NEW s \in Tensors, NEW g \in Nat, StoredOf(s, g)
  PROVE  FullStore(s) = SeenOf(g)
<1>1. PICK h \in Seq(KvColumns), w \in Seq(KvColumns) : h = s.dec /\ w = s.win
  BY DEF Tensors
<1>2. PICK k \in Nat : k = Smaller(g, Window) /\ k <= g
  BY DEF Smaller, KvAssumption
<1>3. Len(h) = g - k /\ Len(w) = k
  BY <1>1, <1>2 DEF StoredOf
<1>4. PICK f \in Seq(KvColumns) : f = h \o w
  BY ConcatProperties
<1>5. Len(f) = Len(h) + Len(w) /\ \A i \in 1 .. Len(h) + Len(w) : f[i] = IF i <= Len(h) THEN h[i] ELSE w[i - Len(h)]
  BY <1>4, ConcatProperties
<1>6. Len(f) = g /\ \A i \in 1 .. g : f[i] = IF i <= g - k THEN h[i] ELSE w[i - (g - k)]
  BY <1>2, <1>3, <1>5
<1>7. ASSUME NEW i \in 1 .. g PROVE f[i] = SeenOf(g)[i]
  <2>1. i > g - Window <=> i > g - k
    BY <1>2 DEF Smaller, KvAssumption
  <2>2. CASE i > g - k
    <3>1. i - (g - k) \in 1 .. k /\ (g - k) + (i - (g - k)) = i
      BY <1>2, <2>2
    <3>2. w[i - (g - k)] = Exact((g - k) + (i - (g - k)))
      BY <1>1, <1>3, <3>1 DEF StoredOf
    <3>3. f[i] = w[i - (g - k)]
      BY <1>6, <1>2, <2>2
    <3> QED
      BY <2>1, <2>2, <3>1, <3>2, <3>3 DEF SeenOf
  <2>3. CASE ~(i > g - k)
    <3>1. i \in 1 .. g - k
      BY <1>2, <2>3
    <3>2. h[i] = Quantized(Exact(i))
      BY <1>1, <1>3, <3>1 DEF StoredOf
    <3>3. f[i] = h[i]
      BY <1>6, <3>1
    <3> QED
      BY <2>1, <2>3, <3>2, <3>3 DEF SeenOf
  <2> QED
    BY <2>2, <2>3
<1>8. DOMAIN f = 1 .. g /\ f = [i \in DOMAIN f |-> f[i]]
  BY <1>6, LenProperties
<1> QED
  BY <1>1, <1>4, <1>7, <1>8 DEF FullStore, SeenOf

(* The storage is allocated on the first call only.                        *)
LEMMA AllocatedHolds ==
  ASSUME KvAssumption, NEW s, StoreHolds(s), NEW batch \in Nat \ {0}
  PROVE  LET a == Allocated(s, batch)
         IN  StoreHolds(a) /\ a.batch # 0 /\ a.win = s.win /\ a.dec = s.dec
<1>1. CASE s.batch # 0
  BY <1>1 DEF Allocated
<1>2. CASE s.batch = 0
  <2> DEFINE blank == [i \in 1 .. MaxSeqLen |-> Blank]
  <2>1. blank \in Seq(KvColumns) /\ Len(blank) = MaxSeqLen
    <3>1. Blank \in KvColumns /\ MaxSeqLen \in Nat
      BY DEF Blank, KvColumns, KvAssumption
    <3>2. blank \in [1 .. MaxSeqLen -> KvColumns]
      BY <3>1
    <3> QED
      BY <3>1, <3>2, SeqDef, LenProperties
  <2> HIDE DEF blank
  <2>2. s \in Tensors /\ s.idx = << >> /\ s.ptr \in Nat /\ s.ptr <= Len(s.idx) /\ Len(s.dec) = s.ptr
    BY <1>2 DEF StoreHolds, Stores, Tensors
  <2>3. s.ptr = 0
    BY <2>2
  <2>4. PICK a : a = [s EXCEPT !.batch = batch, !.idx = blank]
    OBVIOUS
  <2>5. a = Allocated(s, batch)
    BY <1>2, <2>4 DEF Allocated, blank
  <2>6. a \in Tensors /\ a.batch = batch /\ a.win = s.win /\ a.dec = s.dec /\ a.ptr = 0 /\ a.idx = blank
    BY <2>1, <2>2, <2>3, <2>4 DEF Tensors
  <2>7. StoreHolds(a)
    BY <2>1, <2>2, <2>3, <2>6 DEF StoreHolds, Stores, KvAssumption
  <2> QED
    BY <2>5, <2>6, <2>7
<1> QED
  BY <1>1, <1>2

(* store_and_get: the new columns follow those that were stored.           *)
LEMMA StoredHolds ==
  ASSUME KvAssumption, NEW s, StoreHolds(s), NEW batch \in Nat \ {0}, NEW g \in Nat, StoredOf(s, g),
         NEW columns \in Seq(KvColumns), \A i \in 1 .. Len(columns) : columns[i] = Exact(g + i)
  PROVE  LET d == Stored(s, batch, columns)
         IN  StoreHolds(d) /\ StoredOf(d, g + Len(columns))
<1>1. PICK n \in Nat : n = Len(columns)
  BY LenProperties
<1>w. Window \in Nat
  BY DEF KvAssumption
<1>2. PICK k \in Nat, p \in Nat : k = Smaller(g, Window) /\ g = p + k /\ g - k = p /\ k <= Window /\ (p = 0 \/ k = Window)
  <2>1. Smaller(g, Window) \in Nat /\ g - Smaller(g, Window) \in Nat
    BY <1>w DEF Smaller
  <2> QED
    BY <1>w, <2>1 DEF Smaller
<1>g. g = p + k /\ g - k = p /\ k <= Window
  BY <1>2
<1>z. p = 0 \/ k = Window
  BY <1>2
<1>3. PICK a : a = Allocated(s, batch)
  OBVIOUS
<1>4. StoreHolds(a) /\ a.batch # 0 /\ a.win = s.win /\ a.dec = s.dec
  BY <1>3, AllocatedHolds
<1>5. PICK h \in Seq(KvColumns), w \in Seq(KvColumns) : h = s.dec /\ w = s.win
  BY DEF StoreHolds, Stores, Tensors
<1>6. Len(h) = p /\ Len(w) = k /\ (\A i \in 1 .. p : h[i] = Quantized(Exact(i)))
      /\ \A i \in 1 .. k : w[i] = Exact(p + i)
  BY <1>2, <1>5 DEF StoredOf
<1>7. PICK win \in Seq(KvColumns) : win = w \o columns
  BY ConcatProperties
<1>8. Len(win) = k + n /\ \A i \in 1 .. k + n : win[i] = Exact(p + i)
  <2>1. Len(win) = Len(w) + Len(columns)
        /\ \A i \in 1 .. Len(w) + Len(columns) : win[i] = IF i <= Len(w) THEN w[i] ELSE columns[i - Len(w)]
    BY <1>7, ConcatProperties
  <2>2. Len(win) = k + n /\ \A i \in 1 .. k + n : win[i] = IF i <= k THEN w[i] ELSE columns[i - k]
    BY <1>1, <1>6, <2>1
  <2>3. ASSUME NEW i \in 1 .. k + n PROVE win[i] = Exact(p + i)
    <3>1. CASE i <= k
      <4>1. i \in 1 .. k
        BY <3>1
      <4> QED
        BY <1>6, <2>2, <3>1, <4>1
    <3>2. CASE ~(i <= k)
      <4>1. i - k \in 1 .. n /\ g + (i - k) = p + i
        BY <1>g, <2>3, <3>2
      <4>2. columns[i - k] = Exact(g + (i - k))
        BY <1>1, <4>1
      <4> QED
        BY <2>2, <3>2, <4>1, <4>2
    <3> QED
      BY <3>1, <3>2
  <2> QED
    BY <2>2, <2>3
<1>9. PICK d : d = Stored(s, batch, columns)
  OBVIOUS
<1>10. Window \in Nat
  BY DEF KvAssumption
<1>11. a \in Stores /\ a \in Tensors
  BY <1>4 DEF StoreHolds, Stores
<1>12. CASE k + n - Window <= 0
  <2>1. d = [a EXCEPT !.win = win]
    BY <1>3, <1>5, <1>7, <1>8, <1>9, <1>12 DEF Stored
  <2>2. d \in Tensors /\ d.batch = a.batch /\ d.win = win /\ d.dec = a.dec /\ d.ptr = a.ptr /\ d.idx = a.idx
    BY <1>11, <2>1 DEF Tensors
  <2>3. StoreHolds(d)
    BY <1>4, <1>11, <2>2 DEF StoreHolds, Stores
  <2>4. g + n - Smaller(g + n, Window) = p /\ Smaller(g + n, Window) = k + n
    BY <1>2, <1>10, <1>12 DEF Smaller
  <2>5. StoredOf(d, g + n)
    <3>1. d.win = win /\ d.dec = h
      BY <1>4, <1>5, <2>2
    <3>2. Len(d.win) = Smaller(g + n, Window) /\ Len(d.dec) = g + n - Smaller(g + n, Window)
      BY <1>6, <1>8, <2>4, <3>1
    <3>3. \A i \in 1 .. Len(d.dec) : d.dec[i] = Quantized(Exact(i))
      BY <1>6, <3>1
    <3>4. \A i \in 1 .. Len(d.win) : d.win[i] = Exact(Len(d.dec) + i)
      BY <1>6, <1>8, <3>1
    <3> QED
      BY <3>2, <3>3, <3>4 DEF StoredOf
  <2> QED
    BY <1>1, <1>9, <2>3, <2>5
<1>13. CASE ~(k + n - Window <= 0)
  <2>1. PICK e \in Nat : e = k + n - Window /\ e > 0 /\ e <= k + n
    BY <1>10, <1>13
  <2>2. PICK chunk : chunk = SubSeq(win, 1, e)
    OBVIOUS
  <2>3. chunk \in Seq(KvColumns) /\ Len(chunk) = e /\ \A i \in 1 .. e : chunk[i] = win[i]
    <3>1. e <= Len(win) /\ 0 + e <= Len(win)
      BY <1>8, <2>1
    <3>2. chunk = SubSeq(win, 0 + 1, 0 + e)
      BY <2>1, <2>2
    <3>3. chunk \in Seq(KvColumns) /\ Len(chunk) = e /\ \A i \in 1 .. e : chunk[i] = win[0 + i]
      BY <3>1, <3>2, SliceOf
    <3>4. \A i \in 1 .. e : 0 + i = i
      OBVIOUS
    <3> QED
      BY <3>3, <3>4
  <2>4. PICK rest : rest = SubSeq(win, e + 1, Len(win))
    OBVIOUS
  <2>5. rest \in Seq(KvColumns) /\ Len(rest) = Window /\ \A i \in 1 .. Window : rest[i] = win[e + i]
    <3>1. e + Window <= Len(win) /\ e + Window = Len(win)
      BY <1>8, <1>10, <2>1
    <3>2. rest = SubSeq(win, e + 1, e + Window)
      BY <2>4, <3>1
    <3> QED
      BY <1>10, <3>1, <3>2, SliceOf
  <2>6. PICK c : c = CompressChunk(a, chunk)
    OBVIOUS
  <2>7. /\ StoreHolds(c) /\ c.batch = a.batch
        /\ Len(c.dec) = Len(a.dec) + Len(chunk)
        /\ \A i \in 1 .. Len(a.dec) : c.dec[i] = a.dec[i]
        /\ \A j \in 1 .. Len(chunk) : c.dec[Len(a.dec) + j] = Quantized(chunk[j])
    BY <1>4, <2>3, <2>6, ChunkCompressed
  <2>8. d = [c EXCEPT !.win = rest]
    <3>1. s.win \o columns = win /\ Len(win) - Window = e /\ ~(e <= 0)
      BY <1>5, <1>7, <1>8, <2>1
    <3> QED
      BY <1>3, <1>9, <2>2, <2>4, <2>6, <3>1 DEF Stored
  <2>9. c \in Stores /\ c \in Tensors
    BY <2>7 DEF StoreHolds, Stores
  <2>10. d \in Tensors /\ d.batch = c.batch /\ d.win = rest /\ d.dec = c.dec /\ d.ptr = c.ptr /\ d.idx = c.idx
    BY <2>5, <2>8, <2>9 DEF Tensors
  <2>11. StoreHolds(d)
    BY <2>7, <2>9, <2>10 DEF StoreHolds, Stores
  <2>12. Smaller(g + n, Window) = Window /\ g + n - Window = p + e
    BY <1>2, <1>10, <2>1 DEF Smaller
  <2>13. Len(c.dec) = p + e
    BY <1>4, <1>5, <1>6, <2>3, <2>7
  <2>14. ASSUME NEW i \in 1 .. p + e PROVE c.dec[i] = Quantized(Exact(i))
    <3>1. CASE i <= p
      <4>1. i \in 1 .. p
        BY <1>2, <3>1
      <4> QED
        BY <1>4, <1>5, <1>6, <2>7, <4>1
    <3>2. CASE ~(i <= p)
      <4>1. PICK j \in 1 .. e : i = p + j
        <5>1. i - p \in 1 .. e /\ i = p + (i - p)
          BY <1>2, <3>2
        <5> QED
          BY <5>1
      <4>2. c.dec[p + j] = Quantized(chunk[j])
        BY <1>4, <1>5, <1>6, <2>3, <2>7
      <4>3. chunk[j] = Exact(p + j)
        <5>1. j \in 1 .. k + n
          BY <2>1
        <5> QED
          BY <1>8, <2>3, <5>1
      <4> QED
        BY <4>1, <4>2, <4>3
    <3> QED
      BY <3>1, <3>2
  <2>15. ASSUME NEW i \in 1 .. Window PROVE rest[i] = Exact(p + e + i)
    <3>1. e + i \in 1 .. k + n /\ p + (e + i) = p + e + i
      BY <1>10, <2>1, <2>15
    <3> QED
      BY <1>8, <2>5, <3>1
  <2>16. StoredOf(d, g + n)
    <3>1. d.win = rest /\ d.dec = c.dec
      BY <2>10
    <3>2. Len(d.win) = Smaller(g + n, Window) /\ Len(d.dec) = g + n - Smaller(g + n, Window)
      BY <2>5, <2>12, <2>13, <3>1
    <3>3. \A i \in 1 .. Len(d.dec) : d.dec[i] = Quantized(Exact(i))
      BY <2>13, <2>14, <3>1
    <3>4. \A i \in 1 .. Len(d.win) : d.win[i] = Exact(Len(d.dec) + i)
      <4>1. Len(d.win) = Window /\ Len(d.dec) = p + e
        BY <2>5, <2>13, <3>1
      <4> QED
        BY <2>15, <3>1, <4>1
    <3> QED
      BY <3>2, <3>3, <3>4 DEF StoredOf
  <2> QED
    BY <1>1, <1>9, <2>11, <2>16
<1> QED
  BY <1>12, <1>13

(* A store that is reset, and one that lost its oldest columns to an error.*)
LEMMA ResetHolds ==
  ASSUME KvAssumption, NEW s, StoreHolds(s)
  PROVE  StoreHolds(ResetStore(s)) /\ StoredOf(ResetStore(s), 0)
<1>1. PICK x \in Seq(KvColumns) : x = s.idx /\ s \in Tensors
  BY DEF StoreHolds, Stores, Tensors
<1>2. PICK n \in Nat : n = Len(x) /\ DOMAIN x = 1 .. n
  BY LenProperties
<1>3. PICK blank : blank = [i \in 1 .. n |-> Blank]
  OBVIOUS
<1>4. blank \in Seq(KvColumns) /\ Len(blank) = n
  <2>1. blank \in [1 .. n -> KvColumns]
    BY <1>3 DEF Blank, KvColumns
  <2>2. DOMAIN blank = 1 .. n
    BY <1>3
  <2> QED
    BY <2>1, <2>2, SeqDef, LenProperties
<1>5. PICK d : d = ResetStore(s)
  OBVIOUS
<1>6. d = [s EXCEPT !.idx = blank, !.ptr = 0, !.win = << >>, !.dec = << >>]
  BY <1>1, <1>2, <1>3, <1>5 DEF ResetStore
<1>7. << >> \in Seq(KvColumns) /\ Len(<< >>) = 0
  OBVIOUS
<1>8. d \in Tensors /\ d.idx = blank /\ d.ptr = 0 /\ d.win = << >> /\ d.dec = << >> /\ d.batch = s.batch
  BY <1>1, <1>4, <1>6, <1>7 DEF Tensors
<1>9. s.batch = 0 => blank = << >>
  <2> SUFFICES ASSUME s.batch = 0 PROVE blank = << >>
    OBVIOUS
  <2>1. n = 0
    BY <1>1, <1>2 DEF StoreHolds
  <2> QED
    BY <1>4, <2>1, EmptySeq
<1>10. StoreHolds(d)
  BY <1>4, <1>7, <1>8, <1>9 DEF StoreHolds, Stores
<1>11. StoredOf(d, 0)
  <2>1. Smaller(0, Window) = 0
    BY DEF Smaller, KvAssumption
  <2> QED
    BY <1>7, <1>8, <2>1 DEF StoredOf
<1> QED
  BY <1>5, <1>10, <1>11

LEMMA RaisedHolds ==
  ASSUME KvAssumption, NEW s, StoreHolds(s), NEW columns \in Seq(KvColumns), Len(s.win) + Len(columns) > Window
  PROVE  StoreHolds(StoreRaised(s, columns))
<1>1. PICK w \in Seq(KvColumns) : w = s.win /\ s \in Tensors
  BY DEF StoreHolds, Stores, Tensors
<1>2. PICK win \in Seq(KvColumns) : win = w \o columns /\ Len(win) = Len(w) + Len(columns)
  BY ConcatProperties
<1>3. PICK m \in Nat : m = Len(win) - Window /\ m + Window = Len(win)
  <2>1. Len(win) \in Nat /\ Window \in Nat /\ Len(win) > Window
    BY <1>1, <1>2, LenProperties DEF KvAssumption
  <2> QED
    BY <2>1
<1>4. PICK x : x = SubSeq(win, m + 1, m + Window)
  OBVIOUS
<1>5. x \in Seq(KvColumns)
  <2>1. Window \in Nat /\ m + Window <= Len(win)
    BY <1>3 DEF KvAssumption
  <2> QED
    BY <1>4, <2>1, SliceOf
<1>6. PICK d : d = StoreRaised(s, columns)
  OBVIOUS
<1>7. d = [s EXCEPT !.win = x]
  BY <1>1, <1>2, <1>3, <1>4, <1>6 DEF StoreRaised
<1>8. d \in Tensors /\ d.idx = s.idx /\ d.ptr = s.ptr /\ d.dec = s.dec /\ d.batch = s.batch
  BY <1>1, <1>5, <1>7 DEF Tensors
<1>9. StoreHolds(d)
  BY <1>8 DEF StoreHolds, Stores
<1> QED
  BY <1>6, <1>9

(* What was decoded, read from the rows.                                   *)
LEMMA HistoryOf ==
  ASSUME NEW s, StoreHolds(s) PROVE s.ptr <= Len(s.idx) /\ SubSeq(s.idx, 1, s.ptr) = s.dec
<1>1. PICK x \in Seq(KvColumns), h \in Seq(KvColumns), p \in Nat :
        x = s.idx /\ h = s.dec /\ p = s.ptr /\ p <= Len(x) /\ Len(h) = p /\ \A i \in 1 .. p : h[i] = x[i]
  BY DEF StoreHolds, Stores, Tensors
<1>2. PICK t : t = SubSeq(x, 1, p)
  OBVIOUS
<1>3. 0 + p <= Len(x) /\ t = SubSeq(x, 0 + 1, 0 + p)
  BY <1>1, <1>2
<1>4. t \in Seq(KvColumns) /\ Len(t) = p /\ \A i \in 1 .. p : t[i] = x[0 + i]
  BY <1>3, SliceOf
<1>5. \A i \in 1 .. p : t[i] = h[i]
  BY <1>1, <1>4
<1>6. t = h
  BY <1>1, <1>4, <1>5, SeqEqual
<1> QED
  BY <1>1, <1>2, <1>6

(* The invariant of the library's loop and its cache.                      *)
GivenOf(q, l) == IF q.pc = "forward" /\ l < q.layer THEN q.done + Len(q.new) ELSE q.done
KvTypes ==
  /\ config \in [cache : {"turboquant", "static"}, speculative : BOOLEAN]
  /\ kv \in [store : [Layers -> Stores], keys : [Layers -> [1 .. MaxSeqLen -> KvColumns]], seqLen : {0}]
  /\ \A l \in Layers : StoreHolds(kv.store[l])
  /\ request \in Requests
  /\ seen \in [Layers -> Seq(KvColumns)]
InOrder(q) ==
  /\ q.pc = "forward" => q.batch # 0 /\ \A i \in 1 .. Len(q.new) : q.new[i] = q.done + i
  /\ q.pc = "sample" => q.batch # 0 /\ q.layer = 1
KvSees ==
  config.cache = "turboquant" /\ request.pc \in {"forward", "sample"} =>
    \A l \in Layers : StoredOf(kv.store[l], GivenOf(request, l)) /\ seen[l] = SeenOf(GivenOf(request, l))
KvInv == KvTypes /\ InOrder(request) /\ KvSees

(* An engine starts with empty caches.                                     *)
LEMMA KvStarts == ASSUME EngineInit PROVE KvInv
<1>1. EmptyStore \in Stores /\ StoreHolds(EmptyStore)
  <2>1. << >> \in Seq(KvColumns) /\ Len(<< >>) = 0
    OBVIOUS
  <2> QED
    BY <2>1 DEF EmptyStore, StoreHolds, Stores, Tensors
<1>2. EmptyKeys \in [1 .. MaxSeqLen -> KvColumns]
  BY DEF EmptyKeys, Blank, KvColumns
<1>3. request = NoRequest /\ NoRequest \in Requests /\ request.pc = "idle"
  <2>1. 1 \in Layers /\ << >> \in Seq(Nat)
    BY EngineAssumption DEF Layers
  <2> QED
    BY <2>1 DEF EngineInit, NoRequest, Requests
<1>4. seen \in [Layers -> Seq(KvColumns)]
  <2>1. << >> \in Seq(KvColumns)
    OBVIOUS
  <2> QED
    BY <2>1 DEF EngineInit
<1>5. kv \in [store : [Layers -> Stores], keys : [Layers -> [1 .. MaxSeqLen -> KvColumns]], seqLen : {0}]
      /\ \A l \in Layers : StoreHolds(kv.store[l])
  BY <1>1, <1>2 DEF EngineInit
<1>6. config \in [cache : {"turboquant", "static"}, speculative : BOOLEAN]
  BY DEF EngineInit
<1>7. KvTypes
  BY <1>3, <1>4, <1>5, <1>6 DEF KvTypes
<1> QED
  BY <1>3, <1>7 DEF KvInv, InOrder, KvSees

(* A new request empties them.                                             *)
LEMMA ResetKeeps ==
  ASSUME KvInv, Reset
  PROVE  /\ kv' \in [store : [Layers -> Stores], keys : [Layers -> [1 .. MaxSeqLen -> KvColumns]], seqLen : {0}]
         /\ \A l \in Layers : StoreHolds(kv'.store[l]) /\ StoredOf(kv'.store[l], 0)
<1>1. ASSUME NEW l \in Layers
      PROVE  StoreHolds(ResetStore(kv.store[l])) /\ StoredOf(ResetStore(kv.store[l]), 0) /\ ResetStore(kv.store[l]) \in Stores
  <2>1. PICK s : s = kv.store[l] /\ StoreHolds(s)
    BY DEF KvInv, KvTypes
  <2>2. StoreHolds(ResetStore(s)) /\ StoredOf(ResetStore(s), 0)
    BY <2>1, KvAssumption, ResetHolds
  <2>3. ResetStore(s) \in Stores
    BY <2>2 DEF StoreHolds
  <2> QED
    BY <2>1, <2>2, <2>3
<1>2. EmptyKeys \in [1 .. MaxSeqLen -> KvColumns]
  BY DEF EmptyKeys, Blank, KvColumns
<1> QED
  BY <1>1, <1>2 DEF Reset

(* The columns of a forward follow those all layers have seen.             *)
LEMMA NewColumnsOf ==
  ASSUME KvInv, request.pc = "forward"
  PROVE  /\ NewColumns \in Seq(KvColumns) /\ Len(NewColumns) = Len(request.new)
         /\ \A i \in 1 .. Len(NewColumns) : NewColumns[i] = Exact(request.done + i)
<1>1. PICK q \in Seq(Nat) : q = request.new
  BY DEF KvInv, KvTypes, Requests
<1>2. PICK n \in Nat : n = Len(q) /\ DOMAIN q = 1 .. n /\ \A i \in 1 .. n : q[i] \in Nat
  BY LenProperties, ElementOfSeq
<1>3. PICK c : c = NewColumns
  OBVIOUS
<1>4. c = [i \in 1 .. n |-> Exact(q[i])]
  BY <1>1, <1>2, <1>3 DEF NewColumns
<1>5. c \in [1 .. n -> KvColumns]
  BY <1>2, <1>4 DEF Exact, KvColumns
<1>6. c \in Seq(KvColumns) /\ Len(c) = n
  <2>1. DOMAIN c = 1 .. n
    BY <1>4
  <2> QED
    BY <1>5, <2>1, SeqDef, LenProperties
<1>7. \A i \in 1 .. n : c[i] = Exact(request.done + i)
  BY <1>1, <1>2, <1>4 DEF KvInv, InOrder
<1> QED
  BY <1>1, <1>2, <1>3, <1>6, <1>7

(* The update of one layer moves on to the next one.                       *)
LEMMA NextGiven ==
  ASSUME KvTypes, request.pc = "forward", request' = NextLayer
  PROVE  /\ request' \in Requests /\ request'.pc \in {"forward", "sample"}
         /\ request'.batch = request.batch /\ request'.new = request.new
         /\ request'.pc = "sample" => request'.layer = 1
         /\ request'.pc = "forward" => request'.done = request.done
         /\ \A l \in Layers :
              GivenOf(request', l) = IF l = request.layer THEN request.done + Len(request.new) ELSE GivenOf(request, l)
<1>1. request \in Requests /\ Len(request.new) \in Nat /\ NumLayers \in Nat \ {0}
  BY EngineAssumption, LenProperties DEF KvTypes, Requests
<1>2. PICK n \in Nat : n = Len(request.new)
  BY <1>1
<1>3. CASE request.layer < NumLayers
  <2>1. request' = [request EXCEPT !.layer = request.layer + 1]
    BY <1>3 DEF NextLayer
  <2>2. request.layer + 1 \in Layers
    BY <1>1, <1>3 DEF Requests, Layers
  <2>3. request' \in Requests /\ request'.pc = "forward" /\ request'.batch = request.batch /\ request'.new = request.new
        /\ request'.done = request.done /\ request'.layer = request.layer + 1
    BY <1>1, <2>1, <2>2 DEF Requests
  <2>4. ASSUME NEW l \in Layers
        PROVE  GivenOf(request', l) = IF l = request.layer THEN request.done + n ELSE GivenOf(request, l)
    <3>1. l \in Nat /\ request.layer \in Nat
      BY <1>1 DEF Layers, Requests
    <3>2. l < request'.layer <=> (l < request.layer \/ l = request.layer)
      BY <2>3, <3>1
    <3>3. ~(request.layer < request.layer)
      BY <3>1
    <3> QED
      BY <1>2, <2>3, <3>2 DEF GivenOf
  <2> QED
    BY <1>2, <2>3, <2>4
<1>4. CASE ~(request.layer < NumLayers)
  <2>1. request' = [request EXCEPT !.pc = "sample", !.layer = 1, !.done = request.done + n]
    BY <1>2, <1>4 DEF NextLayer
  <2>2. 1 \in Layers /\ request.done + n \in Nat
    BY <1>1, <1>2 DEF Requests, Layers
  <2>3. request' \in Requests /\ request'.pc = "sample" /\ request'.batch = request.batch /\ request'.new = request.new
        /\ request'.done = request.done + n /\ request'.layer = 1
    BY <1>1, <2>1, <2>2 DEF Requests
  <2>4. ASSUME NEW l \in Layers
        PROVE  GivenOf(request', l) = IF l = request.layer THEN request.done + n ELSE GivenOf(request, l)
    <3>1. l = request.layer \/ l < request.layer
      BY <1>1, <1>4 DEF Layers, Requests
    <3>2. GivenOf(request', l) = request.done + n
      BY <2>3 DEF GivenOf
    <3>3. l < request.layer => GivenOf(request, l) = request.done + n
      BY <1>2 DEF GivenOf
    <3> QED
      BY <3>1, <3>2, <3>3
  <2> QED
    BY <1>2, <2>3, <2>4
<1> QED
  BY <1>3, <1>4

(* Before the first column.                                                *)
LEMMA NothingSeen == SeenOf(0) = << >> /\ << >> \in Seq(KvColumns)
BY DEF SeenOf

(* One lemma for each operation of the backend.                            *)
LEMMA GenerateKeeps ==
  ASSUME KvInv, NEW b \in Batches, NEW n \in Lengths, Generate(b, n)
  PROVE  KvInv'
<1>1. b \in Nat \ {0} /\ n \in Nat \ {0} /\ NumLayers \in Nat \ {0} /\ MaxNewTokens \in Nat
  BY EngineAssumption, SpeculativeAssumption
<1>2. PICK new : new = [i \in 1 .. n |-> i]
  OBVIOUS
<1>3. new \in Seq(Nat) /\ Len(new) = n /\ \A i \in 1 .. n : new[i] = 0 + i
  <2>1. new \in [1 .. n -> Nat] /\ DOMAIN new = 1 .. n
    BY <1>2
  <2>2. \A i \in 1 .. n : new[i] = 0 + i
    BY <1>2
  <2> QED
    BY <1>1, <2>1, <2>2, SeqDef, LenProperties
<1>4. request' = [pc |-> "forward", batch |-> b, layer |-> 1, new |-> new, done |-> 0, left |-> MaxNewTokens]
  BY <1>2 DEF Generate, NoRequest
<1>5. /\ request' \in Requests /\ request'.pc = "forward" /\ request'.batch # 0 /\ request'.layer = 1
      /\ request'.new = new /\ request'.done = 0
  <2>1. 1 \in Layers
    BY <1>1 DEF Layers
  <2> QED
    BY <1>1, <1>3, <1>4, <2>1 DEF Requests
<1>6. InOrder(request')
  BY <1>3, <1>5 DEF InOrder
<1>7. \A l \in Layers : GivenOf(request', l) = 0
  BY <1>5 DEF GivenOf, Layers
<1>8. seen' = [l \in Layers |-> << >>] /\ config' = config
  BY DEF Generate
<1>9. KvTypes'
  BY <1>5, <1>8, ResetKeeps, NothingSeen DEF Generate, KvTypes, KvInv
<1>10. KvSees'
  <2>1. ASSUME NEW l \in Layers
        PROVE  StoredOf(kv'.store[l], GivenOf(request', l)) /\ seen'[l] = SeenOf(GivenOf(request', l))
    BY <1>7, <1>8, ResetKeeps, NothingSeen DEF Generate
  <2> QED
    BY <2>1 DEF KvSees
<1> QED
  BY <1>6, <1>9, <1>10 DEF KvInv

LEMMA GenerateSpeculativeKeeps == ASSUME KvInv, GenerateSpeculative PROVE KvInv'
<1>1. request' = request /\ seen' = seen /\ config' = config /\ request.pc \in {"idle", "failed"} /\ Reset
  BY DEF GenerateSpeculative, Idle
<1>2. KvTypes'
  BY <1>1, ResetKeeps DEF KvTypes, KvInv
<1>3. InOrder(request') /\ KvSees'
  BY <1>1 DEF KvInv, InOrder, KvSees
<1> QED
  BY <1>2, <1>3 DEF KvInv

LEMMA UpdateStoreKeeps == ASSUME KvInv, UpdateStore PROVE KvInv'
<1> USE DEF KvInv
<1>1. request.pc = "forward" /\ config.cache = "turboquant" /\ config' = config /\ request' = NextLayer
  BY DEF UpdateStore
<1>2. PICK l \in Layers : l = request.layer
  BY DEF KvTypes, Requests
<1>3. PICK s : s = kv.store[l] /\ StoreHolds(s)
  BY DEF KvTypes
<1>4. PICK g \in Nat : g = request.done
  BY DEF KvTypes, Requests
<1>5. GivenOf(request, l) = g
  BY <1>2, <1>4 DEF GivenOf, Layers
<1>6. StoredOf(s, g)
  BY <1>1, <1>3, <1>5 DEF KvSees
<1>7. PICK columns \in Seq(KvColumns) : columns = NewColumns
  BY <1>1, NewColumnsOf
<1>8. PICK n \in Nat : n = Len(columns)
  BY LenProperties
<1>9. n = Len(request.new) /\ \A i \in 1 .. Len(columns) : columns[i] = Exact(g + i)
  BY <1>1, <1>4, <1>7, <1>8, NewColumnsOf
<1>10. PICK b \in Nat \ {0} : b = request.batch
  BY <1>1 DEF KvTypes, Requests, InOrder
<1>11. PICK d : d = Stored(s, b, columns)
  OBVIOUS
<1>12. StoreHolds(d) /\ StoredOf(d, g + n)
  <2>1. \A i \in 1 .. Len(columns) : columns[i] = Exact(g + i)
    BY <1>9
  <2>2. StoreHolds(s)
    BY <1>3
  <2>3. StoreHolds(d) /\ StoredOf(d, g + Len(columns))
    BY <1>6, <1>11, <2>1, <2>2, KvAssumption, StoredHolds
  <2> QED
    BY <1>8, <2>3
<1>13. d \in Stores /\ d \in Tensors
  BY <1>12 DEF StoreHolds, Stores
<1>14. FullStore(d) = SeenOf(g + n)
  BY <1>12, <1>13, KvAssumption, FullOf
<1>15. SeenOf(g + n) \in Seq(KvColumns)
  <2>1. FullStore(d) \in Seq(KvColumns)
    <3>1. d.dec \in Seq(KvColumns) /\ d.win \in Seq(KvColumns)
      BY <1>13 DEF Tensors
    <3> QED
      BY <3>1, ConcatProperties DEF FullStore
  <2> QED
    BY <1>14, <2>1
<1>16. kv' = [kv EXCEPT !.store[l] = d] /\ seen' = [seen EXCEPT ![l] = SeenOf(g + n)]
  BY <1>2, <1>3, <1>7, <1>10, <1>11, <1>14 DEF UpdateStore
<1>17. /\ kv' \in [store : [Layers -> Stores], keys : [Layers -> [1 .. MaxSeqLen -> KvColumns]], seqLen : {0}]
       /\ \A j \in Layers : kv'.store[j] = IF j = l THEN d ELSE kv.store[j]
       /\ \A j \in Layers : seen'[j] = IF j = l THEN SeenOf(g + n) ELSE seen[j]
       /\ seen' \in [Layers -> Seq(KvColumns)]
  BY <1>13, <1>15, <1>16 DEF KvTypes
<1>18. /\ request' \in Requests /\ request'.pc \in {"forward", "sample"} /\ InOrder(request')
       /\ \A j \in Layers : GivenOf(request', j) = IF j = l THEN g + n ELSE GivenOf(request, j)
  BY <1>1, <1>2, <1>4, <1>9, NextGiven DEF InOrder
<1>19. KvTypes'
  BY <1>1, <1>12, <1>17, <1>18 DEF KvTypes
<1>20. KvSees'
  <2>1. ASSUME NEW j \in Layers
        PROVE  StoredOf(kv'.store[j], GivenOf(request', j)) /\ seen'[j] = SeenOf(GivenOf(request', j))
    <3>1. CASE j = l
      BY <1>12, <1>17, <1>18, <3>1
    <3>2. CASE j # l
      BY <1>1, <1>17, <1>18, <3>2 DEF KvSees
    <3> QED
      BY <3>1, <3>2
  <2> QED
    BY <2>1 DEF KvSees
<1> QED
  BY <1>18, <1>19, <1>20

LEMMA UpdateStaticKeeps == ASSUME KvInv, UpdateStatic PROVE KvInv'
<1> USE DEF KvInv
<1>1. request.pc = "forward" /\ config.cache = "static" /\ config' = config /\ request' = NextLayer /\ ~UpdateFails
  BY DEF UpdateStatic
<1>2. PICK l \in Layers : l = request.layer
  BY DEF KvTypes, Requests
<1>3. PICK columns \in Seq(KvColumns) : columns = NewColumns
  BY <1>1, NewColumnsOf
<1>4. PICK n \in Nat : n = Len(columns) /\ \A i \in 1 .. n : columns[i] \in KvColumns
  BY LenProperties, ElementOfSeq
<1>5. kv.seqLen = 0 /\ kv.keys[l] \in [1 .. MaxSeqLen -> KvColumns] /\ MaxSeqLen \in Nat
  BY KvAssumption DEF KvTypes
<1>6. 0 + n <= MaxSeqLen
  BY <1>1, <1>3, <1>4, <1>5 DEF UpdateFails, StaticFails
<1>7. PICK keys : keys = StaticWritten(kv.keys[l], 0, columns)
  OBVIOUS
<1>8. keys \in [1 .. MaxSeqLen -> KvColumns]
  <2>1. ASSUME NEW i \in 1 .. MaxSeqLen, i \in (0 + 1) .. (0 + n) PROVE columns[i - 0] \in KvColumns
    <3>1. i - 0 \in 1 .. n
      BY <2>1
    <3> QED
      BY <1>4, <3>1
  <2> QED
    BY <1>4, <1>5, <1>7, <2>1 DEF StaticWritten
<1>9. FullStatic(keys, 0, columns) \in Seq(KvColumns)
  <2>1. \A i \in 1 .. n : keys[i] \in KvColumns
    BY <1>5, <1>6, <1>8
  <2>2. SubSeq(keys, 1, n) \in Seq(KvColumns)
    BY <2>1, SubSeqProperties
  <2>3. 0 + Len(columns) = n
    BY <1>4
  <2> QED
    BY <2>2, <2>3 DEF FullStatic
<1>10. PICK f \in Seq(KvColumns) : f = FullStatic(keys, 0, columns)
  BY <1>9
<1>11. kv' = [kv EXCEPT !.keys[l] = keys] /\ seen' = [seen EXCEPT ![l] = f]
  BY <1>2, <1>3, <1>5, <1>7, <1>10 DEF UpdateStatic
<1>12. /\ kv' \in [store : [Layers -> Stores], keys : [Layers -> [1 .. MaxSeqLen -> KvColumns]], seqLen : {0}]
       /\ kv'.store = kv.store
       /\ seen' \in [Layers -> Seq(KvColumns)]
  BY <1>8, <1>11 DEF KvTypes
<1>13. request' \in Requests /\ InOrder(request')
  BY <1>1, NextGiven DEF InOrder
<1>14. KvTypes'
  BY <1>1, <1>12, <1>13 DEF KvTypes
<1> QED
  BY <1>1, <1>13, <1>14 DEF KvSees

LEMMA RaiseKeeps == ASSUME KvInv, Raise PROVE KvInv'
<1> USE DEF KvInv
<1>1. request.pc = "forward" /\ UpdateFails /\ config' = config /\ seen' = seen /\ request' = [request EXCEPT !.pc = "failed"]
  BY DEF Raise
<1>2. request' \in Requests /\ request'.pc = "failed"
  BY <1>1 DEF KvTypes, Requests
<1>3. /\ kv' \in [store : [Layers -> Stores], keys : [Layers -> [1 .. MaxSeqLen -> KvColumns]], seqLen : {0}]
      /\ \A j \in Layers : StoreHolds(kv'.store[j])
  <2>1. CASE config.cache # "turboquant"
    BY <2>1 DEF Raise, KvTypes
  <2>2. CASE config.cache = "turboquant"
    <3>1. PICK l \in Layers : l = request.layer
      BY DEF KvTypes, Requests
    <3>2. PICK s : s = kv.store[l] /\ StoreHolds(s)
      BY DEF KvTypes
    <3>3. PICK columns \in Seq(KvColumns) : columns = NewColumns
      BY <1>1, NewColumnsOf
    <3>4. Len(s.win) + Len(columns) > Window
      BY <1>1, <2>2, <3>1, <3>2, <3>3 DEF UpdateFails, StoreFails
    <3>5. PICK d : d = StoreRaised(s, columns)
      OBVIOUS
    <3>6. StoreHolds(s)
      BY <3>2
    <3>7. StoreHolds(d)
      BY <3>4, <3>5, <3>6, KvAssumption, RaisedHolds
    <3>8. kv' = [kv EXCEPT !.store[l] = d]
      BY <2>2, <3>1, <3>2, <3>3, <3>5 DEF Raise
    <3>9. d \in Stores
      BY <3>7 DEF StoreHolds
    <3> QED
      BY <3>7, <3>8, <3>9 DEF KvTypes
  <2> QED
    BY <2>1, <2>2
<1>4. KvTypes'
  BY <1>1, <1>2, <1>3 DEF KvTypes
<1> QED
  BY <1>2, <1>4 DEF InOrder, KvSees

(* The loop of generate() moves no column.                                 *)
LEMMA LoopKeeps ==
  ASSUME KvInv, SampleNext \/ Stop \/ UNCHANGED <<config, kvVars>>
  PROVE  KvInv'
<1> USE DEF KvInv
<1>1. CASE SampleNext
  <2>1. request.pc = "sample" /\ request \in Requests /\ request.layer = 1 /\ request.done \in Nat /\ request.left > 1
        /\ config' = config /\ kv' = kv /\ seen' = seen
    BY <1>1 DEF SampleNext, KvTypes, InOrder, Requests
  <2>2. PICK new : new = <<request.done + 1>>
    OBVIOUS
  <2>3. new \in Seq(Nat) /\ Len(new) = 1 /\ new[1] = request.done + 1
    BY <2>1, <2>2
  <2>4. request' = [request EXCEPT !.pc = "forward", !.new = new, !.left = request.left - 1]
    BY <1>1, <2>2 DEF SampleNext
  <2>5. request.left - 1 \in Nat
    BY <2>1 DEF Requests
  <2>6. /\ request' \in Requests /\ request'.pc = "forward" /\ request'.layer = 1 /\ request'.done = request.done
        /\ request'.new = new /\ request'.batch = request.batch
    BY <2>1, <2>3, <2>4, <2>5 DEF Requests
  <2>7. request.batch # 0
    BY <2>1 DEF InOrder
  <2>i. \A i \in 1 .. Len(new) : new[i] = request.done + i
    BY <2>1, <2>3
  <2>8. InOrder(request')
    BY <2>6, <2>7, <2>i DEF InOrder
  <2>9. \A l \in Layers : GivenOf(request', l) = GivenOf(request, l)
    BY <2>1, <2>6 DEF GivenOf, Layers
  <2> QED
    BY <2>1, <2>6, <2>8, <2>9 DEF KvTypes, KvSees
<1>2. CASE Stop
  <2>1. request' \in Requests /\ request'.pc = "idle" /\ config' = config /\ kv' = kv /\ seen' = seen
    BY <1>2 DEF Stop, KvTypes, Requests
  <2> QED
    BY <2>1 DEF KvTypes, InOrder, KvSees
<1>3. CASE UNCHANGED <<config, kvVars>>
  BY <1>3 DEF kvVars, KvTypes, InOrder, KvSees
<1> QED
  BY <1>1, <1>2, <1>3

(* Every step keeps the invariant.                                         *)
LEMMA KvKeeps == KvInv /\ [MCEngineNext]_mcVars => KvInv'
<1> SUFFICES ASSUME KvInv, [MCEngineNext]_mcVars PROVE KvInv'
  OBVIOUS
<1>1. \/ \E b \in Batches, n \in Lengths : Generate(b, n)
      \/ GenerateSpeculative \/ UpdateStore \/ UpdateStatic \/ Raise \/ SampleNext \/ Stop
      \/ UNCHANGED <<config, kvVars>>
  BY DEF MCEngineNext, mcVars, engineVars, EngineNext, ForwardStep, DecoderStep
<1> QED
  BY <1>1, GenerateKeeps, GenerateSpeculativeKeeps, UpdateStoreKeeps, UpdateStaticKeeps, RaiseKeeps, LoopKeeps

(* It says what the cache promises.                                        *)
LEMMA KvInvSuffices == ASSUME KvInv, SpecTypeOK PROVE CompressedHolds
<1> USE DEF KvInv
<1>1. EngineTypeOK
  BY DEF EngineTypeOK, KvTypes, KvColumns
<1>2. CompressedSeesAll
  <2> SUFFICES ASSUME config.cache = "turboquant", request.pc \in {"forward", "sample"}, NEW l \in Layers
               PROVE  seen[l] = [i \in 1 .. Given(l) |-> IF i > Given(l) - Window THEN Exact(i) ELSE Quantized(Exact(i))]
    BY DEF CompressedSeesAll
  <2>1. GivenOf(request, l) = Given(l)
    BY DEF Given, GivenOf
  <2>2. seen[l] = SeenOf(Given(l))
    BY <2>1 DEF KvSees
  <2> QED
    BY <2>2 DEF SeenOf
<1>3. RowsHoldHistory
  BY HistoryOf DEF RowsHoldHistory, KvTypes
<1> QED
  BY <1>1, <1>2, <1>3 DEF CompressedHolds

(* Of the compressed cache: whatever the window, the growth of its storage,*)
(* the number of layers and the requests before this one, each layer gets  *)
(* the whole sequence in order, the last Window columns exactly, and the   *)
(* rows behind the pointer hold what was decoded from them, also after an  *)
(* update that raised (kv_cache.py, _LayerKVStore.store_and_get).          *)
THEOREM AlwaysCompressedHolds == MCEngineSpec => []CompressedHolds
<1>1. MCEngineInit => KvInv
  BY KvStarts DEF MCEngineInit
<1>2. DecoderInv => SpecTypeOK
  BY DEF DecoderInv
<1>3. KvInv /\ SpecTypeOK => CompressedHolds
  BY KvInvSuffices
<1> QED
  BY <1>1, <1>2, <1>3, KvKeeps, DecoderInvariance, PTL DEF MCEngineSpec

=============================================================================
