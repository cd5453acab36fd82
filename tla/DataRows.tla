------------------------------ MODULE DataRows ------------------------------
(***************************************************************************)
(* From the files of a data set to the rows a model trains on: the         *)
(* registry and the local builder choose what is read (data/registry.py,   *)
(* data/datasets/local_chat.py), a format renders every row to a text      *)
(* (data/formats), and one TokenizerActor per Ray process turns batches of *)
(* texts into padded rows with labels (data/tokenize.py).                  *)
(*                                                                         *)
(* A text is the sequence of its turns, a turn a speaker and a content;    *)
(* a content is a sequence of tokens.  The chat template of a tokenizer is *)
(* taken to write every turn in order, as the manual ChatML does.          *)
(* Bounds: Sources, Batches, Tokenizers.                                   *)
(***************************************************************************)
EXTENDS Integers, FiniteSets, Sequences, SequencesExt

CONSTANTS Sources,   \* records [name, split, train, val, plain, cache, files]
          Batches,   \* sequences of raw rows
          Tokenizers \* records [pad, bos, seqLen, format, chat]

VARIABLES source,    \* the data section of the configuration
          tokenizer, \* the tokenizer and the format of this run
          origin,    \* what the builder reads, or why it fails
          actor,     \* has this process loaded its tokenizer, and the pad token
          batch,     \* raw rows of the current batch
          texts,     \* rendered
          rows       \* tokenized

dataVars == <<source, tokenizer, origin, actor, batch, texts, rows>>

Ignored == -100
Eos == 0
NoPad == -1   \* the tokenizer names no pad token

(* Raw rows: a text, a conversation or an instruction.  "other" stands for *)
(* any further name of a speaker.                                          *)
Speakers == {"human", "gpt", "system", "function", "user", "assistant", "tool", "prose", "plain", "other"}
Contents == Seq(Nat)
Rendered == Seq(Speakers \X Contents)
RawTurns == Seq([bare : BOOLEAN, sender : Speakers, content : Contents])
RawRows ==
  [kind : {"text"}, text : Rendered]
  \cup [kind : {"turns"}, missing : BOOLEAN, turns : RawTurns]
  \cup [kind : {"instruction"}, instruction : Contents, input : Contents, output : Contents]

ASSUME DataAssumption ==
  /\ Batches \subseteq Seq(RawRows)
  /\ Tokenizers \subseteq [pad : Nat \cup {NoPad}, bos : BOOLEAN, seqLen : Nat,
                           format : {"none", "chatml", "sharegpt", "alpaca"}, chat : BOOLEAN]

DataInit ==
  /\ source \in Sources /\ tokenizer \in Tokenizers
  /\ origin = "none"
  /\ actor = [loaded |-> FALSE, pad |-> tokenizer.pad]
  /\ batch = <<>> /\ texts = <<>> /\ rows = <<>>

(* _path_for_split: validation has a path of its own and no other. *)
Given(p, q) == IF p # "none" THEN p ELSE q
PathForSplit == IF source.split = "val" THEN source.val ELSE Given(source.train, source.plain)

(* _read_files: one family of files at a time. *)
Readable(files) == files # {} /\ (files = {"parquet"} \/ files = {"json"})

(* build and call_raw_builder: an unknown name raises first; then the cache*)
(* if one is configured; otherwise the raw data, where only the local      *)
(* builder knows about splits.                                             *)
FaultyOrigin ==
  IF source.name = "local" THEN Given(source.train, source.val) ELSE "hub"
Cached == source.split = "none" /\ source.cache # "none"
Origin ==
  CASE source.name = "unknown" -> "raises"
    [] Cached /\ source.name # "unknown" -> source.cache
    [] ~Cached /\ source.name = "hub" -> "hub"
    [] ~Cached /\ source.name = "local" ->
         IF PathForSplit = "none" \/ ~Readable(source.files) THEN "raises" ELSE PathForSplit
BuildDataset ==
  /\ origin = "none"
  /\ origin' = Origin
  /\ UNCHANGED <<source, tokenizer, actor, batch, texts, rows>>

TakeBatch ==
  /\ origin \notin {"none", "raises"}
  /\ batch = <<>>
  /\ \E b \in Batches : batch' = b
  /\ UNCHANGED <<source, tokenizer, origin, actor, texts, rows>>

(* _TokenizerActorFactory: the tokenizer is loaded with the first batch,   *)
(* and pads with the end of sequence if it has no pad token.               *)
LoadTokenizer ==
  /\ batch # <<>> /\ ~actor.loaded
  /\ actor' = [loaded |-> TRUE, pad |-> IF tokenizer.pad = NoPad THEN Eos ELSE tokenizer.pad]
  /\ UNCHANGED <<source, tokenizer, origin, batch, texts, rows>>

(* Renderers.  A message that is no mapping counts as a user's; a missing  *)
(* list of messages renders to nothing; senders of ShareGPT have names of  *)
(* their own and become users when unknown.                                *)
FaultyRoleMap == [human |-> "user", gpt |-> "user", system |-> "system", function |-> "tool"]
RoleMap == [human |-> "user", gpt |-> "assistant", system |-> "system", function |-> "tool"]
Sender(s) == IF s \in DOMAIN RoleMap THEN RoleMap[s]
             ELSE IF s \in {"user", "assistant", "tool"} THEN s ELSE "user"
Messages(row) == IF row.kind # "turns" \/ row.missing THEN <<>> ELSE row.turns
RenderChatml(row) ==
  [k \in DOMAIN Messages(row) |->
     LET m == Messages(row)[k] IN IF m.bare THEN <<"user", m.content>> ELSE <<m.sender, m.content>>]
RenderShareGpt(row) ==
  [k \in DOMAIN Messages(row) |->
     LET m == Messages(row)[k] IN IF m.bare THEN <<"user", <<>>>> ELSE <<Sender(m.sender), m.content>>]
Instruction(row) == IF row.kind = "instruction" THEN row.instruction \o row.input ELSE <<>>
Output(row) == IF row.kind = "instruction" THEN row.output ELSE <<>>
RenderAlpaca(row) ==
  IF tokenizer.chat THEN <<<<"user", Instruction(row)>>, <<"assistant", Output(row)>>>>
  ELSE <<<<"prose", Instruction(row) \o Output(row)>>>>

RenderedAs(format, row) ==
  CASE format = "chatml" -> RenderChatml(row)
    [] format = "sharegpt" -> RenderShareGpt(row)
    [] format = "alpaca" -> RenderAlpaca(row)
    [] format = "none" -> row.text

(* A format takes a column that is not there for empty; the text column    *)
(* must be there.                                                          *)
Fits(row) == tokenizer.format # "none" \/ row.kind = "text"

Render ==
  /\ actor.loaded /\ batch # <<>> /\ texts = <<>>
  /\ \A k \in DOMAIN batch : Fits(batch[k])
  /\ texts' = [k \in DOMAIN batch |-> RenderedAs(tokenizer.format, batch[k])]
  /\ UNCHANGED <<source, tokenizer, origin, actor, batch, rows>>

WrongColumns ==
  /\ actor.loaded /\ batch # <<>> /\ texts = <<>>
  /\ \E k \in DOMAIN batch : ~Fits(batch[k])
  /\ origin' = "raises" /\ batch' = <<>>
  /\ UNCHANGED <<source, tokenizer, actor, texts, rows>>

(* The tokenizer: one marker per turn, its content, at most seqLen tokens. *)
Marker == 1
TurnTokens(turn) == IF turn[1] = "plain" THEN turn[2] ELSE <<Marker>> \o turn[2]
Tokens(text) ==
  LET all == (IF tokenizer.bos THEN <<Marker>> ELSE <<>>) \o FlattenSeq([k \in DOMAIN text |-> TurnTokens(text[k])])
  IN  SubSeq(all, 1, IF Len(all) < tokenizer.seqLen THEN Len(all) ELSE tokenizer.seqLen)

Padded(s, fill) == [j \in 1 .. tokenizer.seqLen |-> IF j <= Len(s) THEN s[j] ELSE fill]
FaultyLabels(ids, mask) == [j \in DOMAIN ids |-> IF ids[j] = actor.pad THEN Ignored ELSE ids[j]]
Labels(ids, mask) == [j \in DOMAIN ids |-> IF mask[j] = 0 THEN Ignored ELSE ids[j]]

RowOf(text) ==
  LET s == Tokens(text)
      mask == [j \in 1 .. tokenizer.seqLen |-> IF j <= Len(s) THEN 1 ELSE 0]
      ids == Padded(s, actor.pad)
  IN  [ids |-> ids, mask |-> mask, labels |-> Labels(ids, mask)]
Zeros == [j \in 1 .. tokenizer.seqLen |-> 0]
Dummy == [ids |-> Zeros, mask |-> Zeros, labels |-> [j \in 1 .. tokenizer.seqLen |-> Ignored]]

(* __call__: rows without a token are dropped; a batch of nothing else     *)
(* becomes one row without labels.                                         *)
FaultyKept(row) == TRUE
Kept(row) == \E j \in DOMAIN row.mask : row.mask[j] = 1
Filtered(all) == FoldLeft(LAMBDA kept, row : IF Kept(row) THEN Append(kept, row) ELSE kept, <<>>, all)
Tokenize ==
  /\ texts # <<>> /\ rows = <<>>
  /\ LET kept == Filtered([k \in DOMAIN texts |-> RowOf(texts[k])])
     IN  rows' = IF kept = <<>> THEN <<Dummy>> ELSE kept
  /\ UNCHANGED <<source, tokenizer, origin, actor, batch, texts>>

NextBatch ==
  /\ rows # <<>>
  /\ batch' = <<>> /\ texts' = <<>> /\ rows' = <<>>
  /\ UNCHANGED <<source, tokenizer, origin, actor>>

DataNext ==
  \/ BuildDataset \/ TakeBatch \/ LoadTokenizer \/ Render \/ WrongColumns \/ Tokenize \/ NextBatch

-----------------------------------------------------------------------------
(* What the local data set reads for validation is never what it trains on.*)
SplitsStayApart ==
  (source.name = "local" /\ source.split = "val" /\ origin \notin {"none", "raises"}) => origin = source.val

(* A label is ignored exactly where the row is padding: the end of a text  *)
(* is learnt although the same token pads, and only a batch without any    *)
(* text yields a row without labels.                                       *)
LabelsFollowText ==
  \A k \in DOMAIN rows :
     /\ \A j \in 1 .. tokenizer.seqLen : rows[k].labels[j] = IF rows[k].mask[j] = 0 THEN Ignored ELSE rows[k].ids[j]
     /\ (\A j \in 1 .. tokenizer.seqLen : rows[k].labels[j] = Ignored) =>
          rows = <<Dummy>> /\ \A t \in DOMAIN texts : Tokens(texts[t]) = <<>>

(* A conversation reads the same however it was stored: if all its speakers*)
(* have names in both, the ShareGPT names give the text the ChatML names   *)
(* give.                                                                   *)
Alias == [user |-> "human", assistant |-> "gpt", system |-> "system", tool |-> "function"]
Aliased(turn) == [turn EXCEPT !.sender = Alias[turn.sender]]
Renamed(row) ==
  IF row.kind # "turns" THEN row ELSE [row EXCEPT !.turns =
                                              [k \in DOMAIN row.turns |-> Aliased(row.turns[k])]]
SameTurns ==
  (texts # <<>> /\ tokenizer.format = "chatml") =>
     \A k \in DOMAIN batch :
        (\A j \in DOMAIN Messages(batch[k]) :
           ~batch[k].turns[j].bare /\ batch[k].turns[j].sender \in DOMAIN Alias) =>
           RenderShareGpt(Renamed(batch[k])) = texts[k]
=============================================================================
