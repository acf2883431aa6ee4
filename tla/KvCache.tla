--------------------------------- MODULE KvCache ---------------------------------
(* The memory a model's KV cache takes: what ingestion computes from the       *)
(* metadata and stores with the model, the estimate the administrator is       *)
(* shown, and the context the container is then started with.  Sizes are in    *)
(* bytes here; the code divides by 1024 * 1024.  Sums of lengths are of 32     *)
(* bits and all else of 64, of which the signed are the same bits; the release *)
(* build wraps.                                                                *)
EXTENDS Naturals, Sequences, FiniteSetsExt

CONSTANTS Metas,     \* GgufMetadata of the model files
          Contexts, Parallels,
          U32, U64,  \* 2^32, 2^64
          None

(* What a file may say of itself. *)
Described ==
    LET number == {None} \cup 0..(U32 - 1) IN
    [keyLen : number, valueLen : number, keyLenSwa : number, valueLenSwa : number,
     perLayer : {None} \cup Seq(0..(U32 - 1)), pattern : {None} \cup Seq({0, 1}),
     layers : number, kvHeads : number, heads : number, embedding : number,
     window : number, experts : number]

VARIABLES meta,    \* what the file says
          row,     \* what the row of `models` stores of it
          ask      \* an estimate: context, parallel, bytes

vars == <<meta, row, ask>>

Total(layers, cost) == MapThenSumSet(LAMBDA i : cost[i], layers)
Either(value, else) == IF value = None THEN else ELSE value
Least(a, b) == IF a < b THEN a ELSE b

(* saturating_mul, saturating_add *)
Saturated(x) == Least(x, U64 - 1)

(* A layer's bytes per token: key and value of each head, in two bytes.        *)
PerToken(heads, keyLen, valueLen) == heads * ((keyLen + valueLen) % U32) * 2

(* compute_kv_aggregates: by layer when head counts and pattern agree, else    *)
(* every layer global with the largest head count.                             *)
ByLayer(m) == /\ m.perLayer # None /\ m.pattern # None
              /\ Len(m.perLayer) = Len(m.pattern) /\ m.perLayer # <<>>

Global(m) == {i \in DOMAIN m.perLayer : m.pattern[i] = 0}
Windowed(m) == DOMAIN m.perLayer \ Global(m)

(* A mutant: the two kinds of layers are swapped. *)
WindowedOnly(m) == Global(m)

Sliding(m) == Windowed(m)

SwaKey(m) == Either(m.keyLenSwa, m.keyLen)
SwaValue(m) == Either(m.valueLenSwa, m.valueLen)

NoAggregates == [global |-> None, swa |-> None]

Aggregates(m) ==
    LET Cost(k, v) == [i \in DOMAIN m.perLayer |-> PerToken(m.perLayer[i], k, v)] IN
    IF m.keyLen = None \/ m.valueLen = None THEN NoAggregates
    ELSE IF ByLayer(m)
    THEN [global |-> Total(DOMAIN m.perLayer \ Sliding(m), Cost(m.keyLen, m.valueLen)) % U64,
          swa |-> Total(Sliding(m), Cost(SwaKey(m), SwaValue(m))) % U64]
    ELSE IF m.layers = None \/ m.kvHeads = None THEN NoAggregates
    ELSE [global |-> (m.layers * PerToken(m.kvHeads, m.keyLen, m.valueLen)) % U64, swa |-> None]

(* The columns of a row, those without a value empty.                          *)
Row(counts, keyLen, valueLen, window, agg, noPromptCache) ==
    [counts |-> counts, keyLen |-> keyLen, valueLen |-> valueLen, window |-> window,
     agg |-> agg, noPromptCache |-> noPromptCache]

Counts(m) == [layers |-> m.layers, heads |-> m.heads, kvHeads |-> m.kvHeads,
              embedding |-> m.embedding]
NoCounts == [layers |-> None, heads |-> None, kvHeads |-> None, embedding |-> None]
Empty == Row(NoCounts, None, None, None, NoAggregates, FALSE)

(* Rows that releases before this one made: without metadata, with the counts, *)
(* and with the lengths too.                                                   *)
Older(m) == {None, Empty, Row(Counts(m), None, None, None, NoAggregates, FALSE),
             Row(Counts(m), m.keyLen, m.valueLen, None, NoAggregates, FALSE)}

(* insert_downloaded_model, with auto_runtime_overrides: the columns, empty if *)
(* the header could not be read.                                               *)
Ingest ==
    /\ row = None
    /\ row' \in {Empty, Row(Counts(meta), meta.keyLen, meta.valueLen, meta.window,
                            Aggregates(meta), meta.window # None /\ Either(meta.experts, 0) = 0)}
    /\ UNCHANGED <<meta, ask>>

(* backfill_gguf_metadata, at a start of the program, for a row without a      *)
(* count of layers.                                                            *)
Backfill ==
    /\ row # None /\ row.counts.layers = None
    /\ row' = Row(Counts(meta), Either(row.keyLen, meta.keyLen),
                  Either(row.valueLen, meta.valueLen), Either(row.window, meta.window),
                  [global |-> Either(row.agg.global, Aggregates(meta).global),
                   swa |-> Either(row.agg.swa, Aggregates(meta).swa)],
                  row.noPromptCache)
    /\ ask' = None
    /\ UNCHANGED meta

(* estimate_kv_cache_mb; llama-server is started with -c context * parallel    *)
(* (build_llamacpp_cmd).                                                       *)
SwaTokens(context) == IF row.window # None /\ row.window < context THEN row.window ELSE context

FromAggregates(context, parallel) ==
    Saturated(Saturated(Saturated(row.agg.global * context)
                        + (IF row.agg.swa = None THEN 0
                           ELSE Saturated(row.agg.swa * SwaTokens(context))))
              * parallel)

(* The formula there was before the aggregates. *)
HeadDim == row.counts.embedding \div row.counts.heads
Counted == /\ None \notin {row.counts.layers, row.counts.kvHeads}
           /\ None \notin {row.counts.heads, row.counts.embedding} /\ row.counts.heads > 0

FromCounts(context, parallel) ==
    IF Counted
    THEN (row.counts.layers * row.counts.kvHeads
          * (Either(row.keyLen, HeadDim) + Either(row.valueLen, HeadDim))
          * context * parallel * 2) % U64
    ELSE 0

KvBytes(context, parallel) ==
    IF row.agg.global # None THEN FromAggregates(context, parallel)
    ELSE FromCounts(context, parallel)

Estimate ==
    /\ row # None
    /\ \E c \in Contexts, p \in Parallels :
         ask' = [context |-> c, parallel |-> p, bytes |-> KvBytes(c, p)]
    /\ UNCHANGED <<meta, row>>

Init == meta \in Metas /\ row \in Older(meta) /\ ask = None
Next == Ingest \/ Backfill \/ Estimate
Spec == Init /\ [][Next]_vars

-----------------------------------------------------------------------------
(* The cache layer by layer: each keeps, for every slot, the keys and values   *)
(* of its tokens, a sliding layer no more of them than the window.             *)
LayerTokens(m, i, context) ==
    IF m.pattern[i] = 0 THEN context ELSE Least(context, Either(m.window, context))

LayerCost(m) == [i \in DOMAIN m.perLayer |-> m.perLayer[i] * (m.keyLen + m.valueLen) * 2]
SwaCost(m) == [i \in DOMAIN m.perLayer |-> m.perLayer[i] * (SwaKey(m) + SwaValue(m)) * 2]

ByLayers(m, context, parallel) ==
    Total(DOMAIN m.perLayer,
          [i \in DOMAIN m.perLayer |->
             (IF m.pattern[i] = 0 THEN LayerCost(m)[i] ELSE SwaCost(m)[i])
             * LayerTokens(m, i, context)]) * parallel

(* Every layer keeps all tokens, and as many heads as the largest. *)
AllGlobal(m, context, parallel) ==
    m.layers * (m.kvHeads * (m.keyLen + m.valueLen) * 2) * context * parallel

(* The lengths of a key and a value fit 32 bits together, and what a token     *)
(* takes in all layers of a kind 64.                                           *)
Fits(m) ==
    /\ m.keyLen + m.valueLen < U32
    /\ IF ByLayer(m)
       THEN /\ SwaKey(m) + SwaValue(m) < U32
            /\ Total(Global(m), LayerCost(m)) < U64 /\ Total(Windowed(m), SwaCost(m)) < U64
       ELSE m.layers * (m.kvHeads * (m.keyLen + m.valueLen) * 2) < U64

(* Where the aggregates are there and nothing in them has wrapped, the         *)
(* estimate is what the layers take, or the largest number there is: layer by  *)
(* layer if the file describes them, else with all of them global.  In the     *)
(* second case it is what the older formula gives, as the comment on           *)
(* compute_kv_aggregates says ("matches the pre-SWA estimator exactly"), where *)
(* that one has its inputs and does not wrap.                                  *)
EstimateIsTheLayers ==
    ask # None /\ row.agg.global # None /\ Fits(meta) =>
        IF ByLayer(meta)
        THEN ask.bytes = Saturated(ByLayers(meta, ask.context, ask.parallel))
        ELSE LET bytes == AllGlobal(meta, ask.context, ask.parallel) IN
             /\ ask.bytes = Saturated(bytes)
             /\ Counted /\ bytes < U64 => ask.bytes = FromCounts(ask.context, ask.parallel)

(* What that comment says without the last two conditions.                     *)
MatchesOlderEstimator ==
    ask # None /\ row.agg.global # None /\ ~ByLayer(meta) =>
        ask.bytes = FromCounts(ask.context, ask.parallel)

(* The release notes on backfill_gguf_metadata ("now populates the new columns *)
(* ... for already-ingested models that were missing them"): what a start of   *)
(* the program leaves without aggregates is a row whose file gives none.       *)
BackfillReachesAll ==
    row # None /\ row.counts.layers # None => row.agg = Aggregates(meta)
=============================================================================
