---------------------------------- MODULE Gguf ----------------------------------
(* Reading the header of a GGUF file, one key-value pair at a time, and what   *)
(* is made of it: the KV-cache bytes per token and the estimate of the memory  *)
(* a model needs.  The file is a sequence of cells, each with the width in     *)
(* bytes a read must have to stay in step with the writer; strings are cells   *)
(* of their own.  A reader that asks for another width than the cell at its    *)
(* position has is lost: all it reads from there on is rubbish, or an error.   *)
(* Of what is written well it refuses too many pairs and some strings.         *)
EXTENDS Integers, Sequences, FiniteSets, FiniteSetsExt, SequencesExt

CONSTANTS Entries,   \* the key-value pairs of the file: [key |-> , value |-> ]
          Fields,    \* keys read as one integer (context_length, head_count, ...)
          HeadCountKv, Pattern,
          U32,       \* 2^32, what the fields of GgufMetadata count to
          MaxPairs,  \* the most pairs read_gguf_metadata accepts, 10,000
          Unreadable,  \* strings of more than 1,000,000 bytes, or not in UTF-8
          None

VARIABLES entries,   \* what the writer wrote
          pos,       \* the reader's position, in cells, or Lost, or Failed
          n,         \* pairs read
          meta       \* GgufMetadata

vars == <<entries, pos, n, meta>>

Lost == 0
Failed == -1   \* the reader has returned an error
Fine(p) == p \notin {Lost, Failed}
Array == 9
IntTypes == {4, 5, 10, 11}
BoolType == 7
StringType == 8

(* The width of a value of each type tag; the writer and skip_value agree. *)
Width(t) == CASE t \in {0, 1, 7} -> "1"
              [] t \in {2, 3} -> "2"
              [] t \in {4, 5, 6} -> "4"
              [] t \in {10, 11, 12} -> "8"
              [] t = StringType -> "string"
              [] OTHER -> "none"

Cell(w, v) == <<[w |-> w, v |-> v]>>

(* A value is [t, v] or [t |-> Array, of, elems]; after the key and the tag it *)
(* is one cell, or an array's type, count and elements.                        *)
Cells(value) ==
    IF value.t = Array
    THEN Cell("4", value.of) \o Cell("8", Len(value.elems))
         \o [i \in DOMAIN value.elems |-> [w |-> Width(value.of), v |-> value.elems[i]]]
    ELSE Cell(Width(value.t), value.v)

Pair(i) == Cell("string", entries[i].key) \o Cell("4", entries[i].value.t)
           \o Cells(entries[i].value)

(* Where pair i begins: the pairs follow each other. *)
Start(i) == 1 + MapThenSumSet(LAMBDA j : Len(Pair(j)), 1..(i - 1))

PairAt(p) == CHOOSE i \in DOMAIN entries : p \in Start(i)..(Start(i + 1) - 1)

File == [p \in 1..(Start(Len(entries) + 1) - 1) |-> Pair(PairAt(p))[p - Start(PairAt(p)) + 1]]

-----------------------------------------------------------------------------
(* read_exact of one value, or read_string, from position p: the position      *)
(* after it.                                                                   *)
ValueAt(p) == File[p].v
Read(p, w) ==
    IF ~Fine(p) THEN p
    ELSE IF p > Len(File) \/ File[p].w # w THEN Lost
    ELSE IF w = "string" /\ ValueAt(p) \in Unreadable THEN Failed
    ELSE p + 1

(* The header of an array, then count times the element's width. *)
OverArray(p) ==
    LET body == Read(Read(p, "4"), "8")
        Element(j) == Read(p + 1 + j, Width(ValueAt(p))) IN
    IF ~Fine(body) THEN body
    ELSE IF \E j \in 1..ValueAt(p + 1) : Element(j) = Failed THEN Failed
    ELSE IF \E j \in 1..ValueAt(p + 1) : Element(j) = Lost THEN Lost
    ELSE body + ValueAt(p + 1)

ElementsAt(p) == [i \in 1..ValueAt(p + 1) |-> ValueAt(p + 1 + i)]
AsU32(seq) == [i \in DOMAIN seq |-> seq[i] % U32]

(* skip_value; an unknown type is an error. *)
SkipValue(t, p) == IF t = Array THEN OverArray(p) ELSE Read(p, Width(t))

(* read_int_value consumes nothing when the type is no integer, and the caller *)
(* skips.                                                                      *)
IntAt(t, p) == IF t \in IntTypes /\ Fine(Read(p, Width(t))) THEN ValueAt(p) % U32 ELSE None

(* read_int_scalar_or_array, and the caller's rule after it: when it brought   *)
(* neither a maximum nor an array, a value of type t is skipped, even where an *)
(* array has been consumed already.                                            *)
AfterHeadCountKv(t, p) ==
    IF t # Array THEN SkipValue(t, p)
    ELSE IF Fine(OverArray(p)) /\ ValueAt(p) \notin IntTypes /\ ValueAt(p + 1) > 0
         THEN SkipValue(Array, OverArray(p))
         ELSE OverArray(p)

MaxOf(seq) == IF seq = <<>> THEN None ELSE Max(ToSet(seq))

HeadCounts(m, t, p) ==
    IF t = Array /\ Fine(OverArray(p)) /\ (ValueAt(p) \in IntTypes \/ ValueAt(p + 1) = 0)
    THEN [m EXCEPT !.perLayer = AsU32(ElementsAt(p)),
                   !.headCountKv = IF ElementsAt(p) = <<>> THEN @ ELSE MaxOf(AsU32(ElementsAt(p)))]
    ELSE IF t # Array /\ IntAt(t, p) # None THEN [m EXCEPT !.headCountKv = IntAt(t, p)]
    ELSE m

(* read_bool_array consumes any array, and nothing else. *)
PatternOf(m, t, p) ==
    IF t = Array /\ Fine(OverArray(p)) /\ ValueAt(p) = BoolType
    THEN [m EXCEPT !.pattern = ElementsAt(p)] ELSE m

(* A mutant: an array that is no pattern is skipped a second time. *)
AfterPatternTwice(t, p) ==
    IF t = Array /\ Fine(OverArray(p)) /\ ValueAt(p) # BoolType
    THEN SkipValue(Array, OverArray(p)) ELSE SkipValue(t, p)

AfterPattern(t, p) == SkipValue(t, p)

(* One turn of the loop. *)
ReadEntry ==
    LET key == Read(pos, "string")
        body == Read(key, "4")
        t == ValueAt(key)
        name == ValueAt(pos) IN
    /\ n < Len(entries) /\ Fine(pos)
    /\ n' = n + 1
    /\ \/ ~Fine(body) /\ pos' = body /\ meta' = meta
       \/ /\ Fine(body) /\ name = HeadCountKv
          /\ pos' = AfterHeadCountKv(t, body)
          /\ meta' = HeadCounts(meta, t, body)
       \/ /\ Fine(body) /\ name = Pattern
          /\ pos' = AfterPattern(t, body)
          /\ meta' = PatternOf(meta, t, body)
       \/ /\ Fine(body) /\ name \notin {HeadCountKv, Pattern}
          /\ pos' = SkipValue(t, body)
          /\ meta' = IF name \in Fields /\ IntAt(t, body) # None
                     THEN [meta EXCEPT !.field[name] = IntAt(t, body)] ELSE meta
    /\ UNCHANGED entries

Unread == [field |-> [f \in Fields |-> None], headCountKv |-> None, perLayer |-> None,
           pattern |-> None]

(* The magic, the version and the two counts are read: too many pairs are an   *)
(* error.                                                                      *)
Init == /\ entries \in Entries
        /\ pos = IF Len(entries) > MaxPairs THEN Failed ELSE 1
        /\ n = 0 /\ meta = Unread

Next == ReadEntry

Spec == Init /\ [][Next]_vars

-----------------------------------------------------------------------------
(* What the pairs say, without a reader: for each key the last usable one.     *)
Latest(key, Usable(_), Value(_)) ==
    LET at == {i \in 1..n : entries[i].key = key /\ Usable(entries[i].value)} IN
    IF at = {} THEN None ELSE Value(entries[Max(at)].value)

IsInt(v) == v.t \in IntTypes
IsCounts(v) == v.t = Array /\ (v.of \in IntTypes \/ v.elems = <<>>)
IsBools(v) == v.t = Array /\ v.of = BoolType
IsMaximum(v) == IsInt(v) \/ (IsCounts(v) /\ v.elems # <<>>)

Number(v) == v.v % U32
Numbers(v) == AsU32(v.elems)
Elements(v) == v.elems
Largest(v) == IF v.t = Array THEN MaxOf(AsU32(v.elems)) ELSE Number(v)

Said == [field |-> [f \in Fields |-> Latest(f, IsInt, Number)],
         headCountKv |-> Latest(HeadCountKv, IsMaximum, Largest),
         perLayer |-> Latest(HeadCountKv, IsCounts, Numbers),
         pattern |-> Latest(Pattern, IsBools, Elements)]

IsSequence(s) == s \in Seq({s[i] : i \in DOMAIN s})

(* Every value has a type the format knows, what says it is a number is one,   *)
(* and arrays are not nested.                                                  *)
WellFormed(v) ==
    \/ v.t = Array /\ Width(v.of) # "none" /\ IsSequence(v.elems)
    \/ v.t # Array /\ Width(v.t) # "none" /\ (v.t \in IntTypes => v.v \in Int)

(* Of the pairs read, no per-layer head counts of another type than an         *)
(* integer's.                                                                  *)
Regular == \A i \in 1..n :
    LET v == entries[i].value IN
    entries[i].key = HeadCountKv /\ v.t = Array => v.of \in IntTypes \/ v.elems = <<>>

(* What the reader refuses: a string of the pair. *)
Refused(entry) ==
    LET v == entry.value IN
    \/ entry.key \in Unreadable
    \/ v.t = StringType /\ v.v \in Unreadable
    \/ v.t = Array /\ v.of = StringType /\ \E j \in DOMAIN v.elems : v.elems[j] \in Unreadable

(* Up to the first pair whose head counts are not regular the reader is at the *)
(* start of a pair whenever it has finished one, and has understood what the   *)
(* pairs so far say; and it returns an error exactly when there are too many   *)
(* pairs or it has met a string that is too long or not UTF-8                  *)
(* (read_gguf_metadata).                                                       *)
ReaderInStep ==
    Regular => IF Len(entries) > MaxPairs \/ \E i \in 1..n : Refused(entries[i])
               THEN pos = Failed
               ELSE pos = Start(n + 1) /\ meta = Said

(* The comment on the skip after the head counts says it is for what has not   *)
(* been consumed: a reader that stays in step with every well-formed file, or  *)
(* refuses it.                                                                 *)
AlwaysInStep == pos \in {Failed, Start(n + 1)}
=============================================================================
