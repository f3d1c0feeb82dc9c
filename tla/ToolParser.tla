----------------------------- MODULE ToolParser -----------------------------
(***************************************************************************)
(* HYV3ToolParser: tool calls of an HY3 answer, extracted from the whole   *)
(* text (extract_tool_calls) and while the text arrives in pieces          *)
(* (extract_tool_calls_streaming).  A text is a sequence of symbols: tags, *)
(* which the tokenizer never splits, line breaks ("ws"), and characters.   *)
(* The arguments of a call are the symbols of a JSON object.               *)
(***************************************************************************)
EXTENDS Integers, Sequences, SequencesExt

CONSTANTS
    Texts,          \* the answers of the model considered
    StringKey       \* argument names whose schema is exactly "string"

VARIABLES
    text,           \* the answer under way
    received,       \* how much of it the parser has been given
    buffer,         \* _buffer
    toolName,       \* _streaming_tool_name, or NoName
    completedArgs,  \* _completed_args, in the order of insertion
    streamedLen,    \* _streamed_json_len
    content,        \* content deltas sent, added up
    calls,          \* tool call deltas sent, added up per index
    burst           \* history: a piece held more than one call of the parser sends

parser == <<buffer, toolName, completedArgs, streamedLen>>
vars == <<text, received, parser, content, calls, burst>>

NoName == <<"none">>
-----------------------------------------------------------------------------
(* Searching: the first place of a symbol, 0 if there is none. *)
Find(s, x) == SelectInSeq(s, LAMBDA y : y = x)
Has(s, x) == Find(s, x) # 0
Before(s, x) == SubSeq(s, 1, Find(s, x) - 1)
After(s, x) == SubSeq(s, Find(s, x) + 1, Len(s))
FindLast(s, x) == SelectLastInSeq(s, LAMBDA y : y = x)
AfterLast(s, x) == SubSeq(s, FindLast(s, x) + 1, Len(s))

Strip(s) ==
    LET first == SelectInSeq(s, LAMBDA y : y # "ws")
        last  == SelectLastInSeq(s, LAMBDA y : y # "ws")
    IN IF first = 0 THEN <<>> ELSE SubSeq(s, first, last)
LStrip(s) ==
    LET first == SelectInSeq(s, LAMBDA y : y # "ws")
    IN IF first = 0 THEN <<>> ELSE SubSeq(s, first, Len(s))

(* JSON: quotes and line breaks in strings are escaped, by json.dumps and  *)
(* by the parser's own replacements alike.                                 *)
Escape(s) ==
    FlattenSeq([i \in DOMAIN s |-> IF s[i] \in {"quote", "ws"} THEN <<"\\", s[i]>> ELSE <<s[i]>>])
JsonString(s) == <<"quote">> \o Escape(s) \o <<"quote">>

(* _parse_value: a string stays one; for other types, the number written.  *)
ParseValue(key, value) == IF key \in StringKey THEN JsonString(value) ELSE Strip(value)

JsonPair(pair) == JsonString(pair.key) \o <<":">> \o pair.json
JoinPairs(parts) ==
    FlattenSeq([i \in DOMAIN parts |-> IF i = 1 THEN parts[i] ELSE <<",">> \o parts[i]])
JsonObject(args) == <<"{">> \o JoinPairs([i \in DOMAIN args |-> JsonPair(args[i])]) \o <<"}">>
-----------------------------------------------------------------------------
(* func_args_regex: the first closed key and value, and what follows it. *)
ValuePart(s) == LStrip(After(After(s, "<key>"), "</key>"))
StartsWithPair(s) ==
    /\ Has(s, "<key>") /\ Has(After(s, "<key>"), "</key>")
    /\ ValuePart(s) # <<>> /\ Head(ValuePart(s)) = "<value>" /\ Has(ValuePart(s), "</value>")
FirstPair(s) == [key |-> Before(After(s, "<key>"), "</key>"),
                 value |-> Before(Tail(ValuePart(s)), "</value>")]
AfterPair(s) == After(ValuePart(s), "</value>")

RECURSIVE ArgPairs(_)
ArgPairs(s) ==
    IF StartsWithPair(s) THEN <<FirstPair(s)>> \o ArgPairs(AfterPair(s)) ELSE <<>>

RECURSIVE AfterPairs(_)
AfterPairs(s) == IF StartsWithPair(s) THEN AfterPairs(AfterPair(s)) ELSE s

KeyAt(args, key) == SelectInSeq(args, LAMBDA a : a.key = key)

(* The dictionary of a whole call: a key that comes again is overwritten. *)
RECURSIVE ArgDict(_, _)
ArgDict(args, pairs) ==
    IF pairs = <<>> THEN args
    ELSE LET p == Head(pairs)
             arg == [key |-> p.key, json |-> ParseValue(p.key, p.value)]
             i == KeyAt(args, p.key)
         IN ArgDict(IF i = 0 THEN Append(args, arg) ELSE [args EXCEPT ![i] = arg], Tail(pairs))

(* _extract_tool_calls: every closed call, and an unclosed one at the end. *)
RECURSIVE ExtractToolCalls(_)
ExtractToolCalls(s) ==
    IF ~Has(s, "<call>") \/ ~Has(After(s, "<call>"), "<sep>") THEN <<>>
    ELSE LET name == Strip(Before(After(s, "<call>"), "<sep>"))
             rest == After(After(s, "<call>"), "<sep>")
             args == IF Has(rest, "</call>") THEN Before(rest, "</call>") ELSE rest
         IN <<[name |-> name, args |-> JsonObject(ArgDict(<<>>, ArgPairs(args)))]>>
            \o IF Has(rest, "</call>") THEN ExtractToolCalls(After(rest, "</call>")) ELSE <<>>

ExtractContent(s) == IF Has(s, "<calls>") THEN Before(s, "<calls>") ELSE s
-----------------------------------------------------------------------------
(* mutant: what earlier pieces left in the buffer is dropped *)
BufferedAnew(delta) == IF Has(delta, "<calls>") THEN AfterLast(delta, "<calls>") ELSE delta

(* Streaming: what the buffer holds once a piece has been added. *)
Buffered(delta) ==
    buffer \o (IF Has(delta, "<calls>") THEN AfterLast(delta, "<calls>") ELSE delta)

(* A finished answer whose last call was not closed in the buffer. *)
EndTags == <<"</call>", "</calls>">>
Closed(current, buf) ==
    IF /\ \E i \in 1 .. Len(current) - 1 : SubSeq(current, i, i + 1) = EndTags
       /\ ~Has(buf, "</call>")
    THEN buf \o EndTags ELSE buf

(* Phase 2: the closed arguments are added to those known before. *)
RECURSIVE AddArgs(_, _)
AddArgs(args, pairs) ==
    IF pairs = <<>> THEN args
    ELSE LET key == Strip(Head(pairs).key)
             arg == [key |-> key, json |-> ParseValue(key, Head(pairs).value)]
         IN AddArgs(IF KeyAt(args, key) = 0 THEN Append(args, arg) ELSE args, Tail(pairs))

(* The argument at the tail whose value is still open: shown without its   *)
(* closing quote, and only if it is a string.                              *)
PartialPair(tail) ==
    LET rest == After(tail, "<key>")
        key  == Strip(Before(rest, "</key>"))
    IN IF /\ Has(tail, "<key>") /\ Has(rest, "</key>") /\ key \in StringKey
          /\ Has(After(rest, "</key>"), "<value>")
       THEN <<JsonString(key) \o <<":", "quote">> \o Escape(After(rest, "<value>"))>>
       ELSE <<>>

Snapshot(args, tail) ==
    <<"{">> \o JoinPairs([i \in DOMAIN args |-> JsonPair(args[i])] \o PartialPair(tail)) \o <<"}">>

WithheldNothing == 0    \* mutant

(* The closing brace is withheld while the call is open. *)
Withheld == 1

(* _extract_streaming_incremental for a call named name, whose arguments   *)
(* are in buf; sent are the deltas so far, the announcement included.      *)
StreamArgs(name, sent, buf) ==
    LET complete == Has(buf, "</call>")
        argsText == IF complete THEN Before(buf, "</call>") ELSE buf
        args     == AddArgs(completedArgs, ArgPairs(argsText))
        json     == IF complete THEN JsonObject(args) ELSE Snapshot(args, AfterPairs(argsText))
        end      == IF complete THEN Len(json) ELSE Len(json) - Withheld
        diff     == SubSeq(json, streamedLen + 1, end)
    IN /\ calls' = [sent EXCEPT ![Len(sent)].args = @ \o diff]
       /\ \/ /\ complete
             /\ toolName' = NoName /\ completedArgs' = <<>> /\ streamedLen' = 0
             /\ buffer' = After(buf, "</call>")
          \/ /\ ~complete
             /\ toolName' = name /\ completedArgs' = args
             /\ streamedLen' = IF end > streamedLen THEN end ELSE streamedLen
             /\ buffer' = buf

NeverAllInOne(rest) == FALSE    \* mutant: a call that arrived whole is only announced

(* The whole call is in the buffer already. *)
AllInOne(rest) == Has(rest, "</call>")

(* Phase 1: the name is announced as soon as its separator has arrived. *)
AnnounceCall(buf) ==
    LET start == SubSeq(buf, Find(buf, "<call>"), Len(buf))
        name  == Strip(SubSeq(buf, Find(buf, "<call>") + 1, Find(buf, "<sep>") - 1))
        rest  == After(buf, "<sep>")
        sent  == Append(calls, [name |-> name, args |-> <<>>])
    IN \/ /\ ~Has(buf, "<sep>")
          /\ buffer' = start /\ UNCHANGED <<toolName, completedArgs, streamedLen, calls>>
       \/ /\ Has(buf, "<sep>") /\ ~AllInOne(rest)
          /\ toolName' = name /\ buffer' = rest /\ calls' = sent
          /\ UNCHANGED <<completedArgs, streamedLen>>
       \/ /\ Has(buf, "<sep>") /\ AllInOne(rest)
          /\ StreamArgs(name, sent, rest)

ParseBuffer(buf) ==
    \/ /\ toolName # NoName /\ StreamArgs(toolName, calls, buf)
    \/ /\ toolName = NoName /\ Has(buf, "<call>") /\ AnnounceCall(buf)
    \/ /\ toolName = NoName /\ ~Has(buf, "<call>")
       /\ buffer' = <<>> /\ UNCHANGED <<toolName, completedArgs, streamedLen, calls>>

(* extract_tool_calls_streaming for the piece delta *)
ExtractStreaming(current, delta) ==
    \/ /\ ~Has(current, "<calls>")
       /\ content' = content \o delta /\ UNCHANGED <<parser, calls>>
    \/ /\ Has(delta, "<calls>") /\ Before(delta, "<calls>") # <<>>
       /\ content' = content \o Before(delta, "<calls>")
       /\ buffer' = Buffered(delta)
       /\ UNCHANGED <<toolName, completedArgs, streamedLen, calls>>
    \/ /\ Has(current, "<calls>")
       /\ Has(delta, "<calls>") => Before(delta, "<calls>") = <<>>
       /\ ParseBuffer(Closed(current, Buffered(delta))) /\ UNCHANGED content
-----------------------------------------------------------------------------
(* A piece that asks for more than the one delta the parser returns. *)
IsBurst(delta) ==
    LET ends == Len(SelectSeq(delta, LAMBDA y : y = "</call>"))
    IN \/ ends > 1
       \/ ends = 1 /\ Has(delta, "<calls>") /\ Before(delta, "<calls>") # <<>>

Init ==
    /\ text \in Texts /\ received = 0
    /\ buffer = <<>> /\ toolName = NoName /\ completedArgs = <<>> /\ streamedLen = 0
    /\ content = <<>> /\ calls = <<>> /\ burst = FALSE

ReceivePiece(n) ==
    LET delta == SubSeq(text, received + 1, received + n)
    IN /\ received' = received + n
       /\ ExtractStreaming(SubSeq(text, 1, received + n), delta)
       /\ burst' = (burst \/ IsBurst(delta))
       /\ UNCHANGED text

(* A step that adds no text, such as the one of the end-of-answer token. *)
ReceiveNothing ==
    /\ received = Len(text) /\ ExtractStreaming(text, <<>>)
    /\ UNCHANGED <<text, received, burst>>

Next == (\E n \in 1 .. Len(text) - received : ReceivePiece(n)) \/ ReceiveNothing

Spec == Init /\ [][Next]_vars
-----------------------------------------------------------------------------
(* What is sent is never wrong: wherever the text is cut, the content and  *)
(* the calls sent so far, their names and the JSON text of their           *)
(* arguments, begin the ones extracted from the whole text; nothing sent   *)
(* has to be taken back.                                                   *)
StreamIsPrefix ==
    LET all == ExtractToolCalls(text)
    IN /\ IsPrefix(content, ExtractContent(text))
       /\ Len(calls) <= Len(all)
       /\ \A i \in DOMAIN calls :
            /\ calls[i].name = all[i].name
            /\ IF i < Len(calls) \/ toolName = NoName
               THEN calls[i].args = all[i].args
               ELSE IsPrefix(calls[i].args, all[i].args)

Complete == content = ExtractContent(text) /\ calls = ExtractToolCalls(text)

(* Nothing is lost: when the text has ended everything has been sent,      *)
(* unless some piece held the end of two calls, or content and the end of  *)
(* a call, since the parser returns only one of them per piece.            *)
CompleteUnlessBurst == received = Len(text) /\ ~burst => Complete

(* What a burst left behind stays in the buffer: once a further step       *)
(* without text would find no call there, everything has been sent.        *)
CompleteOnceDrained == received = Len(text) /\ ~Has(buffer, "</call>") => Complete
=============================================================================
