-------------------------------- MODULE Config --------------------------------
(* The file config.yaml that Auth (src/adapters/coinbasepro/auth.cpp) reads   *)
(* its keys from, and the YAML parser that reads it (dependencies/yaml).      *)
(*                                                                            *)
(* The environment writes a file line by line: sections under one root key,   *)
(* keys in them, blank lines (a comment is one, once it is cut off).  A line  *)
(* is [offset, key, value]; the parser's line has a type as well.  Sequences, *)
(* block scalars, and quotes that do not match are not in such a file and not *)
(* in the model.                                                              *)
EXTENDS Integers, Sequences, SequencesExt

CONSTANTS
  Root, Sections, Keys,   \* the names in the file
  WidthOf,                \* the number of characters of a name
  Texts,                  \* the values in the file
  Nothing,                \* the key or the value a line does not have
  LineEnd,                \* the value read for a key without one
  Indents,                \* steps of indentation
  MaxLines                \* the bound on the length of the file

Names == {Root} \cup Sections \cup Keys

(* The names are told from one another, and from a key or a value that is not *)
(* there, which has no characters.                                            *)
ASSUME ConfigAssumption ==
  /\ \A name \in Names : WidthOf[name] \in Nat
  /\ Root \notin Sections \cup Keys /\ Sections \cap Keys = {}
  /\ Nothing \notin Names \cup Texts \cup {LineEnd}
  /\ Indents \subseteq Nat \ {0}
  /\ MaxLines \in Nat

VARIABLES
  file,       \* the lines
  indent,     \* its step of indentation, 0 up to the first section
  intended    \* the value the file gives for a section and a key

configVars == <<file, indent, intended>>

-------------------------------------------------------------------------------
(* The parser.                                                                *)
Line(offset, key, value, type) ==
  [offset |-> offset, key |-> key, value |-> value, type |-> type]

IsEmpty(line) == line.key = Nothing /\ line.value = Nothing

Filled(lines) == {j \in DOMAIN lines : ~IsEmpty(lines[j])}

(* The first of a set of lines, or the end.                                   *)
FirstOf(S, lines) == CHOOSE i \in S \cup {Len(lines) + 1} : \A j \in S : i <= j

(* ReadLines: from the first line that is not empty.                          *)
ReadLines(f) == SubSeq(f, FirstOf(Filled(f), f), Len(f))

(* ClearTrailingEmptyLines: the empty lines from i on, up to one that is not. *)
ClearEmpty(lines, i) ==
  SubSeq(lines, 1, i - 1)
    \o SubSeq(lines, FirstOf({j \in Filled(lines) : j >= i}, lines), Len(lines))

(* The lines from i up to the one before last are parts of a scalar.          *)
Typed(lines, i, last) ==
  [j \in DOMAIN lines |->
     IF j \in i..(last - 1) THEN [lines[j] EXCEPT !.type = "scalar"] ELSE lines[j]]

(* The offset that the lines of the scalar at i are compared with.            *)
ParentOffset(lines, i) == lines[IF i = 1 THEN 1 ELSE i - 1].offset

(* Mutant of ScalarLine: a line as far right as the line before is taken for  *)
(* a part of the scalar. *)
ScalarLineWide(lines, i) ==
  LET after == FirstOf({j \in Filled(lines) :
                          j > i /\ lines[j].offset < ParentOffset(lines, i)}, lines)
  IN  [lines |-> Typed(lines, i, after), next |-> after]

(* PostProcessScalarLine: the lines below that are further right than the     *)
(* line before belong to the scalar.                                          *)
ScalarLine(lines, i) ==
  LET after == FirstOf({j \in Filled(lines) :
                          j > i /\ lines[j].offset <= ParentOffset(lines, i)}, lines)
      next  == Max({i} \cup {j \in Filled(lines) : i < j /\ j < after}) + 1
  IN  [lines |-> ClearEmpty(Typed(lines, i, after), next), next |-> next]

(* PostProcessMappingLine: the value moves to a line of its own, unless there *)
(* is none and the next line is nested.  The line of a missing value has an   *)
(* offset that does not count the line's own.                                 *)
MappingLine(lines, i) ==
  LET line    == [lines[i] EXCEPT !.type = "map", !.value = Nothing]
      cleared == ClearEmpty([lines EXCEPT ![i] = line], i + 1)
      nested  == i < Len(cleared) /\ cleared[i + 1].offset > line.offset
      offset  == WidthOf[line.key] + 2
                   + IF lines[i].value = Nothing THEN 0 ELSE line.offset
      scalar  == Line(offset, Nothing, lines[i].value, "scalar")
  IN  IF lines[i].value = Nothing /\ nested THEN [lines |-> cleared, next |-> i + 1]
      ELSE ScalarLine(InsertAt(cleared, i + 1, scalar), i + 1)

(* One round of the loop of PostProcessLines.                                 *)
Round(read) ==
  IF read.next > Len(read.lines) THEN read
  ELSE IF read.lines[read.next].key # Nothing THEN MappingLine(read.lines, read.next)
  ELSE ScalarLine(read.lines, read.next)

(* Each round takes one line that was read, or more.                          *)
PostProcess(lines) ==
  LET after[n \in 0..Len(lines)] ==
        IF n = 0 THEN [lines |-> lines, next |-> 1] ELSE Round(after[n - 1])
  IN  after[Len(lines)].lines

(* What is parsed is where the parser is next and the assignments it has made *)
(* to the nodes at some paths.                                                *)
Refused == [refused |-> TRUE]

Parsed(made, at) == [refused |-> FALSE, made |-> made, at |-> at]

(* ParseScalar, of one line or of several joined by spaces.                   *)
ParseScalar(lines, i, path) ==
  LET parent == IF i = 1 THEN 0 ELSE lines[i - 1].offset
      after  == FirstOf({j \in i..Len(lines) : lines[j].type # "scalar"}, lines)
      value  == IF after > i + 1 THEN [j \in i..(after - 1) |-> lines[j]]
                ELSE IF lines[i].value = Nothing THEN LineEnd ELSE lines[i].value
  IN  IF parent # 0 /\ \E j \in i..(after - 1) : lines[j].offset <= parent THEN Refused
      ELSE Parsed(<<[path |-> path, value |-> value]>>, after)

(* After the value of the key at line i: further left the map ends, in line   *)
(* is its next key.  later is ParseMap, further on.                           *)
NextKey(lines, i, path, child, later) ==
  LET rest == later[child.at][path]
  IN  IF child.refused THEN Refused
      ELSE IF child.at > Len(lines) THEN child
      ELSE IF lines[child.at].offset < lines[i].offset THEN child
      ELSE IF lines[child.at].offset > lines[i].offset \/ lines[child.at].type # "map" THEN Refused
      ELSE IF rest.refused THEN Refused
      ELSE Parsed(child.made \o rest.made, rest.at)

(* The key at line i, its value, and what follows.                            *)
Entry(lines, i, path, later) ==
  LET here == Append(path, lines[i].key)
  IN  IF i = Len(lines) THEN Refused
      ELSE NextKey(lines, i, path,
                   IF lines[i + 1].type = "map" THEN later[i + 1][here]
                   ELSE ParseScalar(lines, i + 1, here), later)

(* ParseMap at each line, where so many keys at the most are to come.         *)
ParseMap(lines) ==
  LET maps[left \in 0..Len(lines)] ==
        [i \in 1..Len(lines) |-> [path \in Seq(Names) |->
           IF left = 0 THEN Refused ELSE Entry(lines, i, path, maps[left - 1])]]
  IN  maps[Len(lines)]

(* ParseRoot: the last line is a scalar, and the root node takes all lines.   *)
Whole(lines, root) ==
  IF Last(lines).type # "scalar" \/ root.refused THEN Refused
  ELSE IF root.at <= Len(lines) THEN Refused ELSE root

ParseLines(lines) ==
  IF lines = <<>> THEN Parsed(<<>>, 1)
  ELSE Whole(lines, IF lines[1].type = "map" THEN ParseMap(lines)[1][<<>>]
                    ELSE ParseScalar(lines, 1, <<>>))

ParseRoot(f) == ParseLines(PostProcess(ReadLines(f)))

(* A node is the values at its paths.  Assigning a scalar clears the node,    *)
(* and so does making a map of a scalar.                                      *)
Assign(node, path, value) ==
  LET kept == {p \in DOMAIN node : ~IsPrefix(path, p) /\ ~IsStrictPrefix(p, path)}
  IN  [p \in kept \cup {path} |-> IF p = path THEN value ELSE node[p]]

Node(made) ==
  LET node[n \in 0..Len(made)] ==
        IF n = 0 THEN <<>> ELSE Assign(node[n - 1], made[n].path, made[n].value)
  IN  node[Len(made)]

(* The constructor of Auth: a node that is not there reads as an empty text.  *)
Read(node, section, key) ==
  LET path == <<Root, section, key>>
  IN  IF path \in DOMAIN node THEN node[path] ELSE Nothing

-------------------------------------------------------------------------------
(* The environment.                                                           *)
Paths == Sections \X Keys

ConfigInit ==
  /\ file = <<Line(0, Root, Nothing, "none")>>
  /\ indent = 0
  /\ intended = [p \in Paths |-> Nothing]

Write(line) == Len(file) < MaxLines /\ file' = Append(file, line)

(* The first section settles the step of indentation.                         *)
WriteSection(s) ==
  /\ \A i \in DOMAIN file : file[i].key # s
  /\ indent' \in IF indent = 0 THEN Indents ELSE {indent}
  /\ Write(Line(indent', s, Nothing, "none"))
  /\ UNCHANGED intended

(* The section that the last line is in.                                      *)
CurrentSection == file[Max({i \in DOMAIN file : file[i].key \in Sections})].key

(* What a key without a value is meant to have is taken from the parser, the  *)
(* end of line that it makes the value (yaml.cpp:1864): of such a key the     *)
(* properties only say that the file is read or refused as a whole.           *)
WriteKey(k, v) ==
  /\ \E i \in DOMAIN file : file[i].key \in Sections
  /\ intended[<<CurrentSection, k>>] = Nothing
  /\ Write(Line(2 * indent, k, v, "none"))
  /\ UNCHANGED indent
  /\ intended' = [intended EXCEPT ![<<CurrentSection, k>>] = IF v = Nothing THEN LineEnd ELSE v]

WriteBlank ==
  /\ ~IsEmpty(Last(file))
  /\ Write(Line(0, Nothing, Nothing, "none"))
  /\ UNCHANGED <<indent, intended>>

WriteLine ==
  \/ \E s \in Sections : WriteSection(s)
  \/ \E k \in Keys, v \in Texts \cup {Nothing} : WriteKey(k, v)
  \/ WriteBlank

(* A name with nothing in it, indented as far as the line made for its value. *)
Pinched(i) ==
  LET next == FirstOf({j \in Filled(file) : j > i}, file)
  IN  /\ file[i].key \in Sections \cup Keys /\ file[i].value = Nothing
      /\ next > Len(file) \/ file[next].offset <= file[i].offset
      /\ file[i].offset >= WidthOf[file[i].key] + 2

AsIntended(config) ==
  IF \E i \in DOMAIN file : Pinched(i) THEN config.refused
  ELSE /\ ~config.refused
       /\ \A p \in Paths : Read(Node(config.made), p[1], p[2]) = intended[p]

(* Whatever the order of sections, keys and blank lines, each key is read as  *)
(* the file gives it in its own section and as nothing if the file does not;  *)
(* the file is refused for a pinched name and for nothing else.               *)
ConfigReadsBack == AsIntended(ParseRoot(file))
===============================================================================
