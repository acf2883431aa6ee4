---------------------------- MODULE AnthropicStream ----------------------------
(***************************************************************************)
(* One streamed answer on the Anthropic endpoint (api/anthropic.rs): the   *)
(* task of transform_stream, which rewrites the backend's chunks as the    *)
(* events of Anthropic's protocol, and the task that logs the usage, which *)
(* watches an accumulator the first one fills when it ends.                *)
(*                                                                         *)
(* A chunk is taken apart by one action and its events leave one by one,   *)
(* as every send is an await at which the client may turn out to be gone.  *)
(* Texts and arguments are dropped; a chunk with several choices or tool   *)
(* calls acts as several chunks.  Lines that do not parse are skipped.     *)
(***************************************************************************)
EXTENDS Naturals, SequencesExt, FiniteSetsExt

CONSTANTS
    ToolIndices,   \* the index fields the backend gives to tool calls
    Usages,        \* positive token counts, as a usage field may carry them
    MaxChunks      \* bound: chunks with a delta or a usage field

ASSUME StreamAssumption ==
    /\ ToolIndices \subseteq Nat /\ Usages \subseteq Nat \ {0}
    /\ MaxChunks \in Nat

VARIABLES
    phase,      \* of the transform task: reading, closing, done or quit
    pending,    \* events of the present chunk that are still to be sent
    sent,       \* events the client's channel has taken
    text,       \* text_block_started with text_block_index
    tools,      \* tool_calls
    next,       \* next_block_index
    usage,      \* final_usage
    acc,        \* usage_accumulator
    here,       \* the client still listens
    late,       \* 300 s have passed since the logger was started
    logged,     \* what the logger has written, -1 before
    chunks      \* chunks so far, for the bound

blockVars == <<text, tools, next>>
logVars == <<acc, late, logged>>
vars == <<phase, pending, sent, blockVars, usage, here, logVars, chunks>>

Kinds == {"message_start", "ping", "block_start", "delta", "block_stop",
          "message_delta", "message_stop"}
NotYet == 0 - 1

On(kind, block) == [kind |-> kind, block |-> block]
Plain(kind) == On(kind, 0)
Event == [kind : Kinds, block : Nat]

TypeOK ==
    /\ phase \in {"reading", "closing", "done", "quit"}
    /\ pending \in Seq(Event) /\ sent \in Seq(Event)
    /\ next \in Nat
    /\ text \in [started : BOOLEAN, block : 0 .. next]
    /\ tools \in Seq([index : ToolIndices, block : 0 .. (next - 1), started : BOOLEAN])
    /\ usage \in Usages \cup {0} /\ acc \in Usages \cup {0}
    /\ here \in BOOLEAN /\ late \in BOOLEAN
    /\ logged \in Usages \cup {0, NotYet}
    /\ chunks \in 0 .. MaxChunks

Init ==
    /\ phase = "reading"
    /\ pending = <<Plain("message_start"), Plain("ping")>> /\ sent = <<>>
    /\ text = [started |-> FALSE, block |-> 0] /\ tools = <<>> /\ next = 0
    /\ usage = 0 /\ acc = 0
    /\ here = TRUE /\ late = FALSE /\ logged = NotYet
    /\ chunks = 0

-----------------------------------------------------------------------------
(* The transform task.                                                     *)

Take ==
    /\ phase = "reading" /\ pending = <<>>
    /\ chunks < MaxChunks /\ chunks' = chunks + 1
    /\ UNCHANGED <<phase, sent, here, logVars>>

Advance(isNew) == IF isNew THEN next + 1 ELSE next

\* Text opens a block unless one is open.
TakeText ==
    /\ Take
    /\ LET opened == IF text.started THEN text ELSE [started |-> TRUE, block |-> next]
           start == IF text.started THEN <<>> ELSE <<On("block_start", next)>>
       IN  /\ text' = opened
           /\ next' = Advance(~text.started)
           /\ pending' = Append(start, On("delta", opened.block))
    /\ UNCHANGED <<tools, usage>>

\* A first tool call closes the text; a later one does not.
ClosesText(isNew) == isNew /\ text.started /\ tools = <<>>

Opened(tool, named) == [tool EXCEPT !.started = @ \/ named]

\* A tool call gets the next block when it is first seen, and its block starts
\* when it is first given a name.
TakeTool(i, named, arguments) ==
    /\ Take
    /\ LET isNew == ~\E k \in DOMAIN tools : tools[k].index = i
           all == IF isNew
                  THEN Append(tools, [index |-> i, block |-> next, started |-> FALSE])
                  ELSE tools
           k == CHOOSE n \in DOMAIN all : all[n].index = i
           b == all[k].block
       IN  /\ tools' = [all EXCEPT ![k] = Opened(@, named)]
           /\ next' = Advance(isNew)
           /\ text' = [text EXCEPT !.started = @ /\ ~ClosesText(isNew)]
           /\ pending' =
                (IF ClosesText(isNew) THEN <<On("block_stop", text.block)>> ELSE <<>>)
                \o (IF tools'[k].started /\ ~all[k].started
                    THEN <<On("block_start", b)>> ELSE <<>>)
                \o (IF tools'[k].started /\ arguments THEN <<On("delta", b)>> ELSE <<>>)
    /\ UNCHANGED usage

\* The usage field, usually of the last chunk.
TakeUsage(u) ==
    /\ Take
    /\ usage' = u
    /\ UNCHANGED <<pending, blockVars>>

\* The stream has ended or broken, which the client is not told apart.  Then
\* come the ends of the open blocks, an empty text if there was nothing, and
\* the two last events.
TextEnd == IF text.started THEN <<On("block_stop", text.block)>> ELSE <<>>

\* Mutant of ToolEnds: a call that never got a name is ended like the others.
AllToolEnds == [k \in DOMAIN tools |-> On("block_stop", tools[k].block)]

\* The calls that were started, and the n-th of them.
Started == {k \in DOMAIN tools : tools[k].started}
StartedTool(n) == CHOOSE k \in Started : Cardinality({m \in Started : m <= k}) = n

ToolEnds ==
    [n \in 1 .. Cardinality(Started) |-> On("block_stop", tools[StartedTool(n)].block)]

EmptyText ==
    IF ~text.started /\ tools = <<>>
    THEN <<On("block_start", 0), On("block_stop", 0)>> ELSE <<>>

End ==
    /\ phase = "reading" /\ pending = <<>>
    /\ phase' = "closing"
    /\ pending' = TextEnd \o ToolEnds \o EmptyText
                  \o <<Plain("message_delta"), Plain("message_stop")>>
    /\ UNCHANGED <<sent, blockVars, usage, here, logVars, chunks>>

Send ==
    /\ pending # <<>> /\ here /\ phase \in {"reading", "closing"}
    /\ sent' = Append(sent, Head(pending))
    /\ pending' = Tail(pending)
    /\ UNCHANGED <<phase, blockVars, usage, here, logVars, chunks>>

\* send_event! finds the receiver gone: the usage so far is all there will be.
SendFails ==
    /\ pending # <<>> /\ ~here /\ phase \in {"reading", "closing"}
    /\ phase' = "quit"
    /\ acc' = usage
    /\ pending' = <<>>
    /\ UNCHANGED <<sent, blockVars, usage, here, late, logged, chunks>>

Store ==
    /\ phase = "closing" /\ pending = <<>>
    /\ phase' = "done"
    /\ acc' = usage
    /\ UNCHANGED <<pending, sent, blockVars, usage, here, late, logged, chunks>>

-----------------------------------------------------------------------------
(* The others.                                                             *)

Leave ==
    /\ here /\ here' = FALSE
    /\ UNCHANGED <<phase, pending, sent, blockVars, usage, logVars, chunks>>

Deadline ==
    /\ ~late /\ late' = TRUE
    /\ UNCHANGED <<phase, pending, sent, blockVars, usage, here, acc, logged, chunks>>

\* Mutant of Log: only a count is logged, and waited for without end.
LogCounted ==
    /\ logged = NotYet /\ acc > 0
    /\ logged' = acc
    /\ UNCHANGED <<phase, pending, sent, blockVars, usage, here, acc, late, chunks>>

\* Mutant of Log: the first look at the accumulator is logged, whatever it is.
LogAtOnce ==
    /\ logged = NotYet
    /\ logged' = acc
    /\ UNCHANGED <<phase, pending, sent, blockVars, usage, here, acc, late, chunks>>

\* Every 500 ms: a count to log, or no more patience.
Log ==
    /\ logged = NotYet
    /\ acc > 0 \/ late
    /\ logged' = acc
    /\ UNCHANGED <<phase, pending, sent, blockVars, usage, here, acc, late, chunks>>

-----------------------------------------------------------------------------
Next ==
    \/ TakeText
    \/ \E i \in ToolIndices, named, arguments \in BOOLEAN : TakeTool(i, named, arguments)
    \/ \E u \in Usages : TakeUsage(u)
    \/ End \/ Send \/ SendFails \/ Store \/ Leave \/ Deadline \/ Log

\* The task runs, a client that stays reads, and the timers fire; nothing says
\* that the backend ever ends.
Fairness ==
    /\ WF_vars(Send \/ SendFails \/ Store)
    /\ WF_vars(Deadline) /\ WF_vars(Log)

FairSpec == Init /\ [][Next]_vars /\ Fairness

-----------------------------------------------------------------------------
Places(kind, b) == {i \in DOMAIN sent : sent[i] = On(kind, b)}
Complete == \E i \in DOMAIN sent : sent[i].kind = "message_stop"

\* What the client has received is bracketed: a block starts once and stops at
\* most once, in that order, its deltas lie in between (text that resumes after a
\* tool call is another block), and a complete message leaves no block open.
WellBracketed ==
    /\ \A i \in DOMAIN sent :
          LET b == sent[i].block
          IN  /\ sent[i].kind \in {"delta", "block_stop"} =>
                    /\ \E s \in Places("block_start", b) : s < i
                    /\ ~\E s \in Places("block_stop", b) : s < i
              /\ sent[i].kind = "block_start" => Cardinality(Places("block_start", b)) = 1
    /\ Complete => \A i \in DOMAIN sent :
                      sent[i].kind = "block_start" => Places("block_stop", sent[i].block) # {}

\* The usage that is logged before the logger's patience ends is that of the
\* whole stream: the accumulator is not seen half way.
LogsWholeUsage ==
    [][logged # logged' /\ ~late => phase \in {"done", "quit"} /\ logged' = usage]_vars

\* Once the backend has ended, a client that stays is told the end of its message;
\* and every stream leaves a line in the usage log, even one that never ends.
EveryStreamEnds ==
    /\ phase = "closing" ~> (Complete \/ ~here)
    /\ <>(logged # NotYet)
=============================================================================
