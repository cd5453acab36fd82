--------------------------- MODULE ThinkingStream ---------------------------
(***************************************************************************)
(* Output of a thinking model (inference/param2.py): reasoning and tool    *)
(* calls between tags, the answer outside.  It is taken apart twice, by    *)
(* parse_model_output once the text is complete and token by token by      *)
(* Param2StreamDecoder.                                                    *)
(*                                                                         *)
(* A text is a sequence of symbols, a token the symbols it decodes to; a   *)
(* tag is two symbols, so that a tokenizer may split it.  White space is   *)
(* left out.                                                               *)
(* Bounds: Vocabulary; MaxTokens tokens are generated.                     *)
(***************************************************************************)
EXTENDS Integers, Sequences, SequencesExt

CONSTANTS Vocabulary, MaxTokens

VARIABLES fullIds,    \* tokens so far
          buffer,     \* symbols looked at for a tag
          inside,     \* "none", "think" or "tool"
          events,     \* what step returned: [type, text]
          ended       \* the end-of-sequence token came

streamVars == <<fullIds, buffer, inside, events, ended>>

Open == [think |-> <<"<think", ">">>, tool |-> <<"<tool_call", ">">>]
Close == [think |-> <<"</think", ">">>, tool |-> <<"</tool_call", ">">>]

(* `tag in joined`, and the text up to the end of a tag. *)
Within(tag, text) == \E k \in 1 .. Len(text) - 1 : SubSeq(text, k, k + 1) = tag
EndsWith(text, tag) == Len(text) > 1 /\ SubSeq(text, Len(text) - 1, Len(text)) = tag
Cut(text) == SubSeq(text, 1, Len(text) - 2)

-----------------------------------------------------------------------------
(* The two patterns <tag>(.*?)</tag>: from an opening tag to the first     *)
(* closing tag after it; the search goes on behind a match, and a tag that *)
(* is never closed is ordinary text.                                       *)
Matches(text, block) ==
  LET scan(acc, symbol) ==
        LET run == Append(acc.run, symbol)
        IN  IF ~acc.open /\ EndsWith(run, Open[block])
            THEN [acc EXCEPT !.rest = @ \o Cut(run), !.run = <<>>, !.open = TRUE]
            ELSE IF acc.open /\ EndsWith(run, Close[block])
            THEN [acc EXCEPT !.found = Append(@, Cut(run)), !.run = <<>>, !.open = FALSE]
            ELSE [acc EXCEPT !.run = run]
      all == FoldLeft(scan, [rest |-> <<>>, found |-> <<>>, run |-> <<>>, open |-> FALSE], text)
  IN  [found |-> all.found, rest |-> all.rest \o (IF all.open THEN Open[block] ELSE <<>>) \o all.run]

(* parse_model_output: thinking is taken out of the text before tool calls *)
(* are; tool calls are listed from the whole text.                         *)
Parse(text) ==
  LET thoughts == Matches(text, "think")
  IN  [reasoning |-> IF thoughts.found = <<>> THEN <<>> ELSE thoughts.found[1],
       toolCalls |-> Matches(text, "tool").found,
       finalAnswer |-> Matches(thoughts.rest, "tool").rest]

(* _render_output of the command line: the answer alone, or all of it.     *)
Rendered(text, thinkingModel, showThinking) ==
  IF thinkingModel /\ ~showThinking THEN Matches(Matches(text, "think").rest, "tool").rest ELSE text

-----------------------------------------------------------------------------
StreamInit == fullIds = <<>> /\ buffer = <<>> /\ inside = "none" /\ events = <<>> /\ ended = FALSE

FaultyEmit(type, text, next, kept) ==
  /\ events' = Append(events, [type |-> type, text |-> text])
  /\ inside' = next /\ buffer' = <<>>
Emit(type, text, next, kept) ==
  /\ events' = Append(events, [type |-> type, text |-> text])
  /\ inside' = next /\ buffer' = kept

(* step outside a block: an opening tag in the token starts one, anything  *)
(* else in that token is dropped; other tokens are the answer at once.     *)
StepOutside(token) ==
  /\ inside = "none"
  /\ LET joined == buffer \o token
     IN  \/ Within(Open.think, joined) /\ Emit("thinking", <<>>, "think", <<>>)
         \/ ~Within(Open.think, joined) /\ Within(Open.tool, joined) /\ Emit("tool_call", <<>>, "tool", <<>>)
         \/ ~Within(Open.think, joined) /\ ~Within(Open.tool, joined) /\ Emit("answer", joined, "none", <<>>)

(* step inside: everything is kept until the closing tag is complete.      *)
StepInside(token, block, type) ==
  /\ inside = block
  /\ LET joined == buffer \o token
         closed == Within(Close[block], joined)
     IN  Emit(type, token, IF closed THEN "none" ELSE block, IF closed THEN <<>> ELSE joined)

Step(token) ==
  /\ ~ended /\ Len(fullIds) < MaxTokens
  /\ fullIds' = Append(fullIds, token)
  /\ ended' = FALSE
  /\ StepOutside(token) \/ StepInside(token, "think", "thinking") \/ StepInside(token, "tool", "tool_call")

StepEos ==
  /\ ~ended
  /\ ended' = TRUE
  /\ events' = Append(events, [type |-> "eos", text |-> <<>>])
  /\ UNCHANGED <<fullIds, buffer, inside>>

StreamNext == StepEos \/ \E token \in Vocabulary : Step(token)

FullText == FlattenSeq(fullIds)

-----------------------------------------------------------------------------
(* What the events of a type say, in order. *)
Said(type) == FlattenSeq([k \in 1 .. Len(events) |-> IF events[k].type = type THEN events[k].text ELSE <<>>])

(* The streams the decoder is for: an opening tag is one special token of  *)
(* its own, nothing follows a closing tag in its token, blocks are closed, *)
(* and thoughts do not start inside a tool call.                           *)
SpecialTokens ==
  \A k \in 1 .. Len(fullIds) :
    /\ \A block \in {"think", "tool"} : (Within(Open[block], fullIds[k]) \/ Open[block][1] \in ToSet(fullIds[k])) => fullIds[k] = Open[block]
    /\ \A block \in {"think", "tool"} : Within(Close[block], fullIds[k]) => EndsWith(fullIds[k], Close[block])
NoThoughtInTool == \A call \in ToSet(Parse(FullText).toolCalls) : ~Within(Open.think, call)

(* The blocks of a kind with their closing tags, as they are streamed.     *)
Blocks(text, block) ==
  LET found == Matches(text, block).found IN FlattenSeq([k \in 1 .. Len(found) |-> found[k] \o Close[block]])

(* The stream and the parser tell the same story: what was streamed as the *)
(* answer is the final answer, what was streamed as thinking and as tool   *)
(* calls are the blocks, and what the user is shown without the reasoning  *)
(* is the answer too (param2.py:259, "separates thinking tokens from       *)
(* answer tokens").                                                        *)
StreamAgrees ==
  (ended /\ inside = "none" /\ SpecialTokens /\ NoThoughtInTool) =>
    /\ Said("answer") = Parse(FullText).finalAnswer
    /\ Rendered(FullText, TRUE, FALSE) = Said("answer")
    /\ Said("thinking") = Blocks(FullText, "think")
    /\ Said("tool_call") = Blocks(Matches(FullText, "think").rest, "tool")
=============================================================================
