--------------------------------- MODULE MCOps ---------------------------------
(* Small inputs for the four conversions.                                      *)
EXTENDS Conversions

CONSTANTS ContextLength, Other, Long, Input

(* Two pairs from these and a third: integers of both widths, strings and      *)
(* booleans where they belong and where they do not, arrays of each; strings   *)
(* that are read and one that is too long.  A field counts to 4, and four      *)
(* pairs are too many.                                                         *)
Scalars == {[t |-> 4, v |-> 2], [t |-> 10, v |-> 5], [t |-> 8, v |-> "text"], [t |-> 8, v |-> Long],
            [t |-> 6, v |-> 1]}
Arrays == {[t |-> 9, of |-> o[1], elems |-> o[2]] :
             o \in {<<4, <<>>>>, <<4, <<1, 3>>>>, <<11, <<-2>>>>, <<7, <<0, 1>>>>, <<8, <<"text">>>>,
                   <<8, <<"text", Long>>>>}}
Pairs == [key : {ContextLength, HeadCountKv, Pattern, Other}, value : Scalars \cup Arrays]
Count(key, k) == [key |-> key, value |-> [t |-> 4, v |-> k]]
MCHeaders == {<<p, q, Count(ContextLength, 2)>> : p \in Pairs, q \in Pairs}
             \cup {<<p, Count(Long, 1), Count(ContextLength, 2)>> : p \in Pairs}
             \cup {<<p, Count(Other, 1), Count(Other, 2), Count(Other, 3)>> : p \in Pairs}

(* Numbers of two bits, in sums of two bits and products of five: some wrap. *)
Layered(per, pat) ==
    [keyLen : {1, 3, None}, valueLen : {1}, keyLenSwa : {None, 2}, valueLenSwa : {None},
     perLayer : {per}, pattern : {pat}, layers : {2, None}, kvHeads : {3, None},
     heads : {0, 2, None}, embedding : {2, None}, window : {None, 2}, experts : {None}]
MCMetas == UNION {Layered(x[1], x[2]) :
                    x \in ({None, <<1, 3>>, <<3, 3, 3>>} \X {None, <<0, 1>>, <<1, 1>>, <<0>>})
                          \cup {<<<<2>>, <<0>>>>, <<<<>>, <<>>>>, <<<<3, 3, 3>>, <<0, 0, 0>>>>}}

Name(place, ext, nested, mmproj, precision, size) ==
    [place |-> place, ext |-> ext, nested |-> nested, mmproj |-> mmproj,
     precision |-> precision, size |-> size]
Model == Name(1, "gguf", FALSE, FALSE, "f16", 9)
Weights == Name(2, "safetensors", FALSE, FALSE, "bf16", 9)
Ignored == Name(3, "git", FALSE, FALSE, "any", 1)
Companions == {Name(4, "gguf", FALSE, TRUE, "f32", 2), Name(5, "gguf", FALSE, TRUE, "bf16", 3),
               Name(6, "gguf", TRUE, TRUE, "f16", 2), Name(7, "gguf", FALSE, TRUE, "f16", 2),
               Name(8, "gguf", FALSE, TRUE, "f16", 1), Name(9, "gguf", FALSE, TRUE, "any", 1)}
MCListings == {<<Ignored, p[1], p[2]>> :
                 p \in {q \in ({Model, Weights} \cup Companions) \X Companions : q[1] # q[2]}}
MCFilters == {All, {1}, {2, 6}}

Said(t) == [type |-> "text", text |-> t]
Image == [type |-> "image"]
MCSystem == <<Said(<<"be brief">>)>>
MCOpenings == {<<Image, Said(<<"a">>)>>}
MCRemarks == {<<>>, <<Said(<<"b">>)>>, <<Image>>}
MCReplies == {<<>>, <<"c">>}
MCFinishes == {"length", NoFinish}
=============================================================================
