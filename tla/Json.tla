--------------------------------- MODULE Json ---------------------------------
(* The JSON library (include/rapidjson) as the connectors use it: a text is   *)
(* read by Document::Parse (reader.h, document.h) and a document is written   *)
(* by Accept with a Writer (document.h, writer.h).                            *)
(*                                                                            *)
(* The reader has two parsers, the recursive one that Parse runs and an       *)
(* iterative one.  The iterative one is the state machine of this module: it  *)
(* takes one token of text per step.  The recursive one is the operator       *)
(* Parse, applied to the text so far.  Both report to a handler: the events.  *)
(*                                                                            *)
(* A text is a sequence of tokens: punctuation, which has the names of        *)
(* reader.h's Token, "string", "number" (which also stands for true, false    *)
(* and null), "word" for a misspelt literal (such as nul) and "space" for     *)
(* white space.  What is inside a string or a number is not modelled, nor are *)
(* comments and trailing commas, which the default flags exclude.             *)
EXTENDS Integers, Sequences, SequencesExt

CONSTANTS
  Tokens,      \* the tokens a text is made of
  MaxTokens    \* the bound on the length of a text

ASSUME JsonAssumption ==
  /\ Tokens \subseteq
       {"LeftCurlyBracket", "RightCurlyBracket", "LeftBracket", "RightBracket", "Comma", "Colon",
        "string", "number", "word", "space"}
  /\ MaxTokens \in Nat

VARIABLES
  text,       \* the tokens read so far
  state,      \* state of IterativeParse
  stack,      \* its stack_: where to return to at the end, and the items so far
  error,      \* parseResult_
  events      \* the calls made to the handler

jsonVars == <<text, state, stack, error, events>>

None == "none"

Scalars == {"string", "number"}

Values == Scalars \cup {"word"}

Event(call, n) == [call |-> call, n |-> n]

-------------------------------------------------------------------------------
(* The recursive parser, and how far it has come.                             *)
Errors ==
  {None, "DocumentEmpty", "RootNotSingular", "ValueInvalid", "MissName", "MissColon",
   "MissCommaOrCurlyBracket", "MissCommaOrSquareBracket"}

Calls == {"StartObject", "Key", "EndObject", "StartArray", "EndArray"} \cup Scalars

Readings == [at : Nat, error : Errors, events : Seq([call : Calls, n : Nat])]

Peek(t, r) == IF r.at <= Len(t) THEN t[r.at] ELSE "end"

Take(r) == [r EXCEPT !.at = @ + 1]

Emit(r, call, n) == [r EXCEPT !.events = Append(@, Event(call, n))]

Fail(r, code) == [r EXCEPT !.error = code]

(* SkipWhitespace.                                                            *)
Skip(t, r) ==
  [r EXCEPT !.at = CHOOSE i \in @..(Len(t) + 1) :
                     /\ \A j \in @..(i - 1) : t[j] = "space"
                     /\ i = Len(t) + 1 \/ t[i] # "space"]

(* p holds the loops of ParseObject and ParseArray, as they are run deeper in *)
(* the text and further on in it.                                             *)
ParseObject(t, r, p) ==
  LET inside == Skip(t, Emit(Take(r), "StartObject", 0))
  IN  IF Peek(t, inside) = "RightCurlyBracket" THEN Emit(Take(inside), "EndObject", 0)
      ELSE p.members[0][inside]

ParseArray(t, r, p) ==
  LET inside == Skip(t, Emit(Take(r), "StartArray", 0))
  IN  IF Peek(t, inside) = "RightBracket" THEN Emit(Take(inside), "EndArray", 0)
      ELSE p.elements[0][inside]

ParseValue(t, r, p) ==
  CASE Peek(t, r) = "LeftCurlyBracket" -> ParseObject(t, r, p)
    [] Peek(t, r) = "LeftBracket" -> ParseArray(t, r, p)
    [] Peek(t, r) \in Scalars -> Emit(Take(r), Peek(t, r), 0)
    [] OTHER -> Fail(r, "ValueInvalid")

(* One round of the loop of ParseObject, and the rest of it.                  *)
Members(t, r, n, p) ==
  LET name  == Skip(t, Emit(Take(r), "Key", 0))
      value == ParseValue(t, Skip(t, Take(name)), p)
      after == Skip(t, value)
  IN  CASE Peek(t, r) # "string" -> Fail(r, "MissName")
        [] Peek(t, r) = "string" /\ Peek(t, name) # "Colon" -> Fail(name, "MissColon")
        [] OTHER ->
             IF value.error # None THEN value
             ELSE CASE Peek(t, after) = "Comma" -> p.members[n + 1][Skip(t, Take(after))]
                    [] Peek(t, after) = "RightCurlyBracket" -> Emit(Take(after), "EndObject", n + 1)
                    [] OTHER -> Fail(after, "MissCommaOrCurlyBracket")

(* One round of the loop of ParseArray, and the rest of it.                   *)
Elements(t, r, n, p) ==
  LET value == ParseValue(t, r, p)
      after == Skip(t, value)
  IN  IF value.error # None THEN value
      ELSE CASE Peek(t, after) = "Comma" -> p.elements[n + 1][Skip(t, Take(after))]
             [] Peek(t, after) = "RightBracket" -> Emit(Take(after), "EndArray", n + 1)
             [] OTHER -> Fail(after, "MissCommaOrSquareBracket")

(* The two loops, where so many tokens are left of the text at the most: each *)
(* round takes one.  Where none is left a name or a value is missed.          *)
Loops(t) ==
  LET loops[left \in 0..Len(t)] ==
        [members  |-> [n \in Nat |-> [r \in Readings |->
                        IF left = 0 THEN Fail(r, "MissName")
                        ELSE Members(t, r, n, loops[left - 1])]],
         elements |-> [n \in Nat |-> [r \in Readings |->
                        IF left = 0 THEN Fail(r, "ValueInvalid")
                        ELSE Elements(t, r, n, loops[left - 1])]]]
  IN  loops

Parse(t) ==
  LET start == Skip(t, [at |-> 1, error |-> None, events |-> <<>>])
      value == ParseValue(t, start, Loops(t)[Len(t)])
  IN  IF Peek(t, start) = "end" THEN Fail(start, "DocumentEmpty")
      ELSE IF value.error = None /\ Peek(t, Skip(t, value)) # "end"
      THEN Fail(value, "RootNotSingular")
      ELSE value

-------------------------------------------------------------------------------
(* The iterative parser.                                                      *)

(* The states in which a value is expected.                                   *)
Expecting == {"Start", "ArrayInitial", "ElementDelimiter", "KeyValueDelimiter"}

(* Where a value read in state s leads.                                       *)
Holding(s) ==
  CASE s = "Start"             -> "Finish"
    [] s = "KeyValueDelimiter" -> "MemberValue"
    [] OTHER                   -> "Element"

(* The table G of Predict.                                                    *)
Predict(s, t) ==
  CASE s \in Expecting /\ t = "LeftBracket" -> "ArrayInitial"
    [] s \in Expecting /\ t = "LeftCurlyBracket" -> "ObjectInitial"
    [] s \in Expecting /\ t \in Values -> Holding(s)
    [] s \in {"ObjectInitial", "MemberDelimiter"} /\ t = "string" -> "MemberKey"
    [] s = "MemberKey" /\ t = "Colon" -> "KeyValueDelimiter"
    [] s = "MemberValue" /\ t = "Comma" -> "MemberDelimiter"
    [] s = "Element" /\ t = "Comma" -> "ElementDelimiter"
    [] s \in {"ObjectInitial", "MemberValue", "MemberDelimiter"} /\ t = "RightCurlyBracket" ->
         "ObjectFinish"
    [] s \in {"ArrayInitial", "Element", "ElementDelimiter"} /\ t = "RightBracket" ->
         "ArrayFinish"
    [] OTHER -> "Error"

(* HandleError.                                                               *)
ErrorIn(s) ==
  CASE s = "Start"         -> "DocumentEmpty"
    [] s = "Finish"        -> "RootNotSingular"
    [] s = "MemberKey"     -> "MissColon"
    [] s = "MemberValue"   -> "MissCommaOrCurlyBracket"
    [] s = "Element"       -> "MissCommaOrSquareBracket"
    [] s \in {"ObjectInitial", "MemberDelimiter"} -> "MissName"
    [] OTHER               -> "ValueInvalid"

JsonInit ==
  /\ text = <<>> /\ stack = <<>> /\ events = <<>>
  /\ state = "Start"
  /\ error = None

(* One round of IterativeParse goes from the state to d, with a call.         *)
Goto(d) == state' = d /\ UNCHANGED error

Call(call, n) == events' = Append(events, Event(call, n))

Refuse(code) ==
  /\ error' = code
  /\ UNCHANGED <<state, stack, events>>

Open(d, call) ==
  /\ Goto(d)
  /\ stack' = Append(stack, [to |-> Holding(state), n |-> 0])
  /\ Call(call, 0)

(* Mutant of Close: a bracket may follow a comma. *)
CloseTrailing(call, delimiter, holding) ==
  LET top == Last(stack)
  IN  /\ Goto(top.to)
      /\ stack' = Front(stack)
      /\ Call(call, IF state = holding THEN top.n + 1 ELSE top.n)

(* A bracket right after a comma is an error: no trailing commas.             *)
Close(call, delimiter, holding) ==
  LET top == Last(stack)
  IN  IF state = delimiter THEN Refuse(ErrorIn(state))
      ELSE /\ Goto(top.to)
           /\ stack' = Front(stack)
           /\ Call(call, IF state = holding THEN top.n + 1 ELSE top.n)

Delimit(d) ==
  /\ Goto(d)
  /\ stack' = [stack EXCEPT ![Len(stack)].n = @ + 1]
  /\ UNCHANGED events

Hold(d, t) ==
  IF t = "word" THEN Refuse("ValueInvalid")
  ELSE Goto(d) /\ Call(t, 0) /\ UNCHANGED stack

Transit(t, d) ==
  \/ d = "Error"         /\ Refuse(ErrorIn(state))
  \/ d = "ObjectInitial" /\ Open(d, "StartObject")
  \/ d = "ArrayInitial"  /\ Open(d, "StartArray")
  \/ d = "MemberKey"     /\ Goto(d) /\ Call("Key", 0) /\ UNCHANGED stack
  \/ d = "KeyValueDelimiter" /\ Goto(d) /\ UNCHANGED <<stack, events>>
  \/ d \in {"MemberDelimiter", "ElementDelimiter"} /\ Delimit(d)
  \/ d = "ObjectFinish"  /\ Close("EndObject", "MemberDelimiter", "MemberValue")
  \/ d = "ArrayFinish"   /\ Close("EndArray", "ElementDelimiter", "Element")
  \/ d \in {"MemberValue", "Element", "Finish"} /\ Hold(d, t)

(* Two numbers side by side are one, and so is white space.                   *)
Separate(t) == t \in {"number", "space"} /\ text # <<>> => Last(text) # t

ReadToken ==
  /\ error = None /\ Len(text) < MaxTokens
  /\ \E t \in Tokens :
       /\ Separate(t)
       /\ text' = Append(text, t)
       /\ IF t = "space" THEN UNCHANGED <<state, stack, error, events>>
          ELSE Transit(t, Predict(state, t))

(* What IterativeParse returns if the text ends here.                         *)
Verdict == IF error = None /\ state # "Finish" THEN ErrorIn(state) ELSE error

-------------------------------------------------------------------------------
(* Documents: a value has a type and its items, the names and values of an    *)
(* object or the elements of an array.                                        *)
Scalar(type) == [type |-> type, items |-> <<>>]

(* The handler of GenericDocument: it builds values on a stack.               *)
Build(values, e) ==
  LET count == IF e.call = "EndObject" THEN 2 * e.n ELSE e.n
      base  == Len(values) - count
  IN  CASE e.call \in Scalars -> Append(values, Scalar(e.call))
        [] e.call = "Key" -> Append(values, Scalar("string"))
        [] e.call = "StartObject" -> Append(values, Scalar("object"))
        [] e.call = "StartArray" -> Append(values, Scalar("array"))
        [] OTHER -> Append(SubSeq(values, 1, base - 1),
                           [values[base] EXCEPT !.items = SubSeq(values, base + 1, Len(values))])

(* ParseStream: a text that is refused leaves the document null.              *)
Document(r) ==
  IF r.error # None THEN Scalar("null") ELSE Head(FoldLeft(Build, <<>>, r.events))

(* The values that are nested at most d deep.                                 *)
Nested[d \in 0..MaxTokens] ==
  [type  : {"null", "object", "array"} \cup Scalars,
   items : IF d = 0 THEN {<<>>} ELSE Seq(Nested[d - 1])]

(* Accept: the calls made for a value, with those for its items inside.       *)
Visit[d \in 0..MaxTokens] ==
  [v \in Nested[d] |->
     LET n        == Len(v.items)
         IsKey(i) == v.type = "object" /\ i % 2 = 1
         Item(i)  == IF IsKey(i) THEN <<Event("Key", 0)>> ELSE Visit[d - 1][v.items[i]]
         Inside   == FlattenSeq([i \in 1..n |-> Item(i)])
     IN  CASE v.type = "object" ->
                <<Event("StartObject", 0)>> \o Inside \o <<Event("EndObject", n \div 2)>>
           [] v.type = "array" ->
                <<Event("StartArray", 0)>> \o Inside \o <<Event("EndArray", n)>>
           [] OTHER -> <<Event(v.type, 0)>>]

(* No value is nested deeper than its text is long.                           *)
Accept(v) == Visit[MaxTokens][v]

(* Mutant of Prefix: the name in an object is followed by a comma. *)
PrefixComma(w) ==
  LET level == Last(w.levels)
  IN  IF w.levels = <<>> THEN w
      ELSE [levels |-> Append(Front(w.levels), [level EXCEPT !.n = @ + 1]),
            out    |-> w.out \o (IF level.n = 0 THEN <<>> ELSE <<"Comma">>)]

(* Prefix: what is put before a value, and its count in the level it is in.   *)
Prefix(w) ==
  LET level == Last(w.levels)
      Before == CASE level.n = 0 -> <<>>
                  [] level.n > 0 /\ (level.inArray \/ level.n % 2 = 0) -> <<"Comma">>
                  [] OTHER -> <<"Colon">>
  IN  IF w.levels = <<>> THEN w
      ELSE [levels |-> Append(Front(w.levels), [level EXCEPT !.n = @ + 1]),
            out    |-> w.out \o Before]

Put(w, token) == [w EXCEPT !.out = Append(@, token)]

Writer(w, e) ==
  LET Opened(token, inArray) ==
        [Put(Prefix(w), token) EXCEPT !.levels = Append(@, [n |-> 0, inArray |-> inArray])]
      Closed(token) == [Put(w, token) EXCEPT !.levels = Front(@)]
  IN  CASE e.call = "StartObject" -> Opened("LeftCurlyBracket", FALSE)
        [] e.call = "StartArray"  -> Opened("LeftBracket", TRUE)
        [] e.call = "EndObject"   -> Closed("RightCurlyBracket")
        [] e.call = "EndArray"    -> Closed("RightBracket")
        [] e.call = "Key"         -> Put(Prefix(w), "string")
        [] OTHER                  -> Put(Prefix(w), e.call)

Written(v) == FoldLeft(Writer, [levels |-> <<>>, out |-> <<>>], Accept(v)).out

-------------------------------------------------------------------------------
(* The parser that the connectors run accepts exactly the texts the table of  *)
(* the iterative parser accepts, makes the same calls with the same counts up *)
(* to the first error, and names the same error (but for one at the very      *)
(* beginning, where only one of them goes on to try a number).                *)
ParsersAgree ==
  LET r == Parse(text)
  IN  /\ (r.error = None) = (Verdict = None)
      /\ r.events = events
      /\ state # "Start" => r.error = Verdict

(* A text without its white space, from the text so far and the next token.   *)
Squeeze(out, token) == IF token = "space" THEN out ELSE Append(out, token)

(* A document read is the text's: written, it gives the text again without    *)
(* its white space.  The body of an order says what was put into it, and what *)
(* is read from an answer or a message is what the exchange wrote.  (The      *)
(* requests of the stream are written by another library.)                    *)
WritingUndoesReading ==
  LET r == Parse(text)
  IN  r.error = None => Written(Document(r)) = FoldLeft(Squeeze, <<>>, text)
===============================================================================
