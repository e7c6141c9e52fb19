---------------------------- MODULE RawPipeline ----------------------------
(***************************************************************************)
(* decodeSubChunkRawModePipelined: one thread block decodes one raw        *)
(* sub-chunk with 1 + Copiers warps.  The parser (warp 0) scans windows of *)
(* tokens and stages them in a double buffer of PipeBatch slots; the       *)
(* copier team executes the slot staged before.  One block barrier         *)
(* (__syncthreads) per batch hands a slot over; a named barrier that only  *)
(* the team joins orders its flat phase before the dependent matches.  A   *)
(* long token drains the pipeline, is copied by all the warps and re-primes*)
(* it.                                                                     *)
(*                                                                         *)
(* A step is what one warp does between two points where another warp      *)
(* could see the difference: half of a staging write, one strided row of a *)
(* copy, one dependent match, one read of a shared flag.  A warp whose pc  *)
(* is the name of a barrier site waits there.                              *)
(***************************************************************************)
EXTENDS RawTokens, SequencesExt

CONSTANTS
    Copiers     \* warps of the copier team (3)

ASSUME CopiersAssumption == Copiers \in Nat \ {0}

Parser == 0
Team   == 1 .. Copiers
Warps  == {Parser} \cup Team
Stages == {0, 1}                        \* SLZ_PIPE_STAGES

TeamThreads  == Copiers * WARP_SIZE       \* SLZ_PIPE_TEAM_THREADS
BlockThreads == (Copiers + 1) * WARP_SIZE \* SLZ_PIPE_BLOCK_THREADS

VARIABLES
    stream,     \* the sub-chunk this block decodes, never written
    serial,     \* Reference(stream), what the copies are compared with (history)
    pc,         \* where each warp is
    pos,        \* each warp's registers cmd_pos, lit_pos, ... (its own copy)
    long,       \* each warp's registers slit, smatch, soff, suse_recent
    cur,        \* each warp's register: the slot executed this round
    row,        \* each copier's loop counter in the current flat pass
    dep,        \* dep_mask register of warp 1
    lanes,      \* s_batch[slot]: the arrays every parser lane stages
    head,       \* s_batch[slot]: the scalars lane 0 stages
    s_have,     \* per-slot "staged" flags
    s_state,    \* parser-to-team broadcast of the registers
    s_long,     \* broadcast of a parsed long token
    dst,        \* the output window
    committed   \* tokens whose copies a block barrier has ordered (history)

vars == <<stream, serial, pc, pos, long, cur, row, dep, lanes, head, s_have, s_state, s_long,
          dst, committed>>
input == <<stream, serial>>
shared == <<lanes, head, s_have, s_state, s_long>>

\* The call sites of __syncthreads, and of the team's named barrier.
BlockSites == {"primed", "handoff", "stated", "longset", "rebroadcast",
               "literals", "matched"}
TeamSites  == {"flatdone", "depdone"}
ParserPCs  == {"prime", "prime_head", "fill", "fill_head", "drained", "token"}
TeamPCs    == {"lit", "im", "dm", "dep"}
CommonPCs  == {"check", "load", "loadlong", "longlit", "longmatch", "reprime",
               "trail", "done"}

EmptyLanes == [lit_prefix |-> <<>>]     \* shared memory before the first staging
EmptyHead  == [batch_size |-> 0]
NoLong     == [lit |-> 0, match |-> 0]

Init ==
    /\ stream \in Streams
    /\ serial = Reference(stream)
    /\ pc = [w \in Warps |-> IF w = Parser THEN "prime" ELSE "primed"]
    /\ pos = [w \in Warps |-> InitialPos]
    /\ long = [w \in Warps |-> NoLong]
    /\ cur = [w \in Warps |-> 0]
    /\ row = [w \in Team |-> 0]
    /\ dep = {}
    /\ lanes = [s \in Stages |-> EmptyLanes]
    /\ head = [s \in Stages |-> EmptyHead]
    /\ s_have = [s \in Stages |-> FALSE]
    /\ s_state = InitialPos
    /\ s_long = NoLong
    /\ dst = InitialDst
    /\ committed = 0

Goto(w, label) == pc' = [pc EXCEPT ![w] = label]

----------------------------------------------------------------------------
(* The parser: fillBatch into slot 0 (prime) or slot 1 - cur (fill) *)

Toggle(slot) == 1 - slot

Slot_Executing == IF pc[Parser] \in {"prime", "prime_head"} THEN 0 ELSE cur[Parser]
Slot == IF pc[Parser] \in {"prime", "prime_head"} THEN 0 ELSE Toggle(cur[Parser])
AfterFill == IF pc[Parser] \in {"prime", "prime_head"} THEN "primed" ELSE "handoff"

\* A window with at least one short token at its head can be staged.
CanStage == /\ pos[Parser].cmd_pos < Len(stream.cmd)
            /\ BatchSize(stream, pos[Parser]) > 0

StageLanes ==
    /\ pc[Parser] \in {"prime", "fill"}
    /\ CanStage
    /\ lanes' = [lanes EXCEPT ![Slot] = StagedLanes(stream, pos[Parser])]
    /\ Goto(Parser, IF pc[Parser] = "prime" THEN "prime_head" ELSE "fill_head")
    /\ UNCHANGED <<input, pos, long, cur, row, dep, head, s_have, s_state, s_long,
                   dst, committed>>

StageHead ==
    /\ pc[Parser] \in {"prime_head", "fill_head"}
    /\ head' = [head EXCEPT ![Slot] = StagedHead(stream, pos[Parser])]
    /\ pos' = [pos EXCEPT ![Parser] = Advance(stream, @)]
    /\ s_have' = [s_have EXCEPT ![Slot] = TRUE]
    /\ Goto(Parser, AfterFill)
    /\ UNCHANGED <<input, long, cur, row, dep, lanes, s_state, s_long, dst, committed>>

\* A long token heads the window, or the tokens are exhausted.
StageNothing ==
    /\ pc[Parser] \in {"prime", "fill"}
    /\ ~CanStage
    /\ s_have' = [s_have EXCEPT ![Slot] = FALSE]
    /\ Goto(Parser, AfterFill)
    /\ UNCHANGED <<input, pos, long, cur, row, dep, lanes, head, s_state, s_long,
                   dst, committed>>

----------------------------------------------------------------------------
(* Block barriers *)

\* Where a warp continues after each barrier site.
Resume(w, site) ==
    CASE site \in {"primed", "handoff"} -> "check"
      [] site = "stated"      -> "load"
      [] site = "longset"     -> "loadlong"
      [] site = "rebroadcast" -> "longlit"
      [] site = "literals"    -> "longmatch"
      [] site = "matched"     -> "reprime"

\* The tokens a barrier orders: the batch just executed, or the long token.
Committed ==
    CASE pc[Parser] = "handoff" -> committed + head[cur[Parser]].batch_size
      [] pc[Parser] \in {"literals", "matched"} -> pos[Parser].cmd_pos
      [] OTHER -> committed

SyncThreads ==
    /\ \A w \in Warps : pc[w] \in BlockSites
    /\ pc' = [w \in Warps |-> Resume(w, pc[w])]
    /\ cur' = [w \in Warps |->
                CASE pc[w] = "handoff" -> Toggle(cur[w])
                  [] pc[w] = "primed"  -> 0
                  [] OTHER -> cur[w]]
    /\ committed' = Committed
    /\ UNCHANGED <<input, pos, long, row, dep, shared, dst>>

\* while (s_have[cur]): each warp reads the flag on its own after the barrier.
Have_OtherSlot(w) == s_have[IF w = Parser THEN cur[w] ELSE Toggle(cur[w])]
Have(w) == s_have[cur[w]]

CheckHave(w) ==
    /\ pc[w] = "check"
    /\ IF Have(w)
       THEN /\ Goto(w, IF w = Parser THEN "fill" ELSE "lit")
            /\ row' = IF w = Parser THEN row ELSE [row EXCEPT ![w] = 0]
       ELSE /\ Goto(w, IF w = Parser THEN "drained" ELSE "stated")
            /\ UNCHANGED row
    /\ UNCHANGED <<input, pos, long, cur, dep, shared, dst, committed>>

----------------------------------------------------------------------------
(* The copier team: executeBatchTeam on slot cur *)

\* The flat bytes below total that warp w's lanes own in their n-th iteration.
Row(w, n, total) ==
    LET first == n * TeamThreads + (w - 1) * WARP_SIZE
    IN  {i \in first .. first + WARP_SIZE - 1 : i < total}

\* The token that owns flat byte i: the last lane of the batch whose prefix
\* does not exceed i.
Owner(prefix, n, i) ==
    CHOOSE k \in 0 .. n - 1 : /\ prefix[k] <= i
                              /\ \A j \in k + 1 .. n - 1 : prefix[j] > i

\* <<target, byte>> of flat byte i in each of the passes, read through slot s.
LitWrite(s, i) ==
    LET k == Owner(lanes[s].lit_prefix, head[s].batch_size, i)
    IN <<head[s].dst_pos + lanes[s].dst_adj[k] + i, LitByte(head[s].lit_pos + i)>>
ImRead(s, i) ==
    lanes[s].im_src_adj[Owner(lanes[s].im_prefix, head[s].batch_size, i)] + i
ImWrite(s, i) ==
    LET k == Owner(lanes[s].im_prefix, head[s].batch_size, i)
        a == ImRead(s, i)
    IN <<lanes[s].im_dst_adj[k] + i, IF a \in Addresses THEN dst[a] ELSE Unwritten>>
DmWrite(s, i) ==
    LET k == Owner(lanes[s].dm_prefix, head[s].batch_size, i)
    IN <<lanes[s].dm_dst_adj[k] + i, DictByte(lanes[s].dm_src_adj[k] + i)>>

Store(writes) ==
    dst' = [a \in Addresses |-> IF \E p \in writes : p[1] = a
                                THEN (CHOOSE p \in writes : p[1] = a)[2]
                                ELSE dst[a]]

\* One iteration of a flat pass, and the move to the next pass after the last.
FlatPass(w, pass, total, write(_), next) ==
    /\ pc[w] = pass
    /\ IF Row(w, row[w], total) # {}
       THEN /\ Store({write(i) : i \in Row(w, row[w], total)})
            /\ row' = [row EXCEPT ![w] = @ + 1]
            /\ UNCHANGED pc
       ELSE /\ row' = [row EXCEPT ![w] = 0]
            /\ Goto(w, next)
            /\ UNCHANGED dst
    /\ UNCHANGED <<input, pos, long, cur, dep, shared, committed>>

FlatLiterals(w) ==
    LET s == cur[w] IN FlatPass(w, "lit", head[s].total_lit, LAMBDA i : LitWrite(s, i), "im")
FlatIndependent(w) ==
    LET s == cur[w] IN FlatPass(w, "im", head[s].total_im, LAMBDA i : ImWrite(s, i), "dm")
FlatDict(w) ==
    LET s == cur[w] IN FlatPass(w, "dm", head[s].total_dm, LAMBDA i : DmWrite(s, i), "flatdone")

\* pipeTeamBar: releases when every copier warp has arrived.  The first call
\* orders the flat passes before the dependent matches of warp 1, the second
\* those matches before the slot hand-over.
PipeTeamBar ==
    /\ \A w \in Team : pc[w] \in TeamSites
    /\ pc' = [w \in Warps |->
                IF w = Parser THEN pc[w]
                ELSE IF pc[w] = "flatdone" THEN IF w = 1 THEN "dep" ELSE "depdone"
                ELSE "handoff"]
    /\ dep' = IF pc[1] = "flatdone" THEN head[cur[1]].dep_mask ELSE dep
    /\ UNCHANGED <<input, pos, long, cur, row, shared, dst, committed>>

LowestDep == CHOOSE k \in dep : \A j \in dep : k <= j
DepTarget(s, k) == lanes[s].im_dst_adj[k] + lanes[s].im_prefix[k]

\* One dependent match, lowest lane first; warp 1 only.
DependentMatch ==
    /\ pc[1] = "dep"
    /\ IF dep # {}
       THEN LET s == cur[1]
                d == DepTarget(s, LowestDep)
            IN /\ dst' = MatchCopy(dst, d, d + lanes[s].match_offset[LowestDep],
                                   lanes[s].match_len[LowestDep])
               /\ dep' = dep \ {LowestDep}
               /\ UNCHANGED pc
       ELSE /\ Goto(1, "depdone")
            /\ UNCHANGED <<dst, dep>>
    /\ UNCHANGED <<input, pos, long, cur, row, shared, committed>>

----------------------------------------------------------------------------
(* Drain, long token, trailing literals *)

DrainBroadcast ==
    /\ pc[Parser] = "drained"
    /\ s_state' = pos[Parser]
    /\ Goto(Parser, "stated")
    /\ UNCHANGED <<input, pos, long, cur, row, dep, lanes, head, s_have, s_long, dst,
                   committed>>

\* The registers a warp continues with, and where: the loop ends when the
\* tokens are exhausted, else the window starts with a long token.
Loaded(w) == s_state
AfterLoad_UntilLiterals(w) ==
    IF s_state.cmd_pos < Len(stream.cmd) THEN IF w = Parser THEN "token" ELSE "longset"
    ELSE IF s_state.lit_pos >= stream.lit_size THEN "trail"
    ELSE IF w = Parser THEN "prime" ELSE "primed"
AfterLoad(w) ==
    IF s_state.cmd_pos >= Len(stream.cmd) THEN "trail"
    ELSE IF w = Parser THEN "token" ELSE "longset"

LoadState(w) ==
    /\ pc[w] = "load"
    /\ pos' = [pos EXCEPT ![w] = Loaded(w)]
    /\ Goto(w, AfterLoad(w))
    /\ UNCHANGED <<input, long, cur, row, dep, shared, dst, committed>>

\* Lane 0 of the parser decodes the long token and broadcasts it.
LongToken ==
    /\ pc[Parser] = "token"
    /\ LET p == Parsed(stream, pos[Parser])
       IN /\ s_long' = [lit |-> p.lit, match |-> p.match, offset |-> p.offset,
                        recent |-> p.recent, off16_pos |-> p.off16_pos]
          /\ pos' = [pos EXCEPT ![Parser].off16_pos = p.off16_pos,
                                ![Parser].length_offset = p.length_offset]
    /\ Goto(Parser, "longset")
    /\ UNCHANGED <<input, long, cur, row, dep, lanes, head, s_have, s_state, dst,
                   committed>>

LoadLong(w) ==
    /\ pc[w] = "loadlong"
    /\ pos' = [pos EXCEPT ![w].off16_pos = s_long.off16_pos, ![w].cmd_pos = @ + 1]
    /\ long' = [long EXCEPT ![w] = s_long]
    /\ s_state' = IF w = Parser
                  THEN [s_state EXCEPT !.length_offset = pos[Parser].length_offset]
                  ELSE s_state
    /\ Goto(w, "rebroadcast")
    /\ UNCHANGED <<input, cur, row, dep, lanes, head, s_have, s_long, dst, committed>>

\* The bytes i < len that warp w's lanes own when all the block's lanes copy.
BlockShare(w, len) == {i \in 0 .. len - 1 : (i % BlockThreads) \div WARP_SIZE = w}

CooperativeLiterals(w, len) ==
    Store({<<pos[w].dst_pos + i, LitByte(pos[w].lit_pos + i)>> : i \in BlockShare(w, len)})

LongLiterals(w) ==
    /\ pc[w] = "longlit"
    /\ pos' = [pos EXCEPT ![w].length_offset = s_state.length_offset]
    /\ IF long[w].lit > 0
       THEN CooperativeLiterals(w, long[w].lit) /\ Goto(w, "literals")
       ELSE Goto(w, "longmatch") /\ UNCHANGED dst
    /\ UNCHANGED <<input, long, cur, row, dep, shared, committed>>

\* warpMatchCopy is warp-granular: the parser warp alone runs it.
LongMatch(w) ==
    /\ pc[w] = "longmatch"
    /\ LET d == pos[w].dst_pos + long[w].lit
       IN /\ pos' = [pos EXCEPT ![w].dst_pos = d, ![w].lit_pos = @ + long[w].lit]
          /\ IF long[w].match > 0 /\ w = Parser
             THEN dst' = MatchCopy(dst, d, d + long[w].offset, long[w].match)
             ELSE UNCHANGED dst
    /\ Goto(w, IF long[w].match > 0 THEN "matched" ELSE "reprime")
    /\ UNCHANGED <<input, long, cur, row, dep, shared, committed>>

Reprime(w) ==
    /\ pc[w] = "reprime"
    /\ pos' = [pos EXCEPT ![w].dst_pos = @ + long[w].match,
                          ![w].recent_offset = IF long[w].recent THEN @ ELSE long[w].offset]
    /\ Goto(w, IF w = Parser THEN "prime" ELSE "primed")
    /\ UNCHANGED <<input, long, cur, row, dep, shared, dst, committed>>

TrailingLiterals(w) ==
    /\ pc[w] = "trail"
    /\ CooperativeLiterals(w, Trailing(stream, pos[w]))
    /\ Goto(w, "done")
    /\ UNCHANGED <<input, pos, long, cur, row, dep, shared, committed>>

----------------------------------------------------------------------------
ParserStep == StageNothing \/ DrainBroadcast \/ LongToken \/ StageHead \/ StageLanes
TeamStep(w) == FlatLiterals(w) \/ FlatIndependent(w) \/ FlatDict(w)
AnyWarpStep(w) == \/ CheckHave(w) \/ LoadState(w) \/ LoadLong(w) \/ LongLiterals(w)
                  \/ LongMatch(w) \/ Reprime(w) \/ TrailingLiterals(w)

AllDone == \A w \in Warps : pc[w] = "done"
Terminated == AllDone /\ UNCHANGED vars

Next == \/ \E w \in Warps : AnyWarpStep(w)
        \/ \E w \in Team : TeamStep(w)
        \/ SyncThreads \/ PipeTeamBar \/ DependentMatch
        \/ ParserStep
        \/ Terminated

\* The hardware promises no fairness between the warps of a block; it runs some
\* warp that can run.
Spec == Init /\ [][Next]_vars /\ WF_vars(Next)

----------------------------------------------------------------------------
(* Properties *)

\* The double buffer: while the parser may be writing a slot, no copier warp is
\* between its first and its last read of that slot.
Staging   == {"prime", "prime_head", "fill", "fill_head"}
Executing == TeamPCs \cup TeamSites
SlotExclusive ==
    pc[Parser] \in Staging =>
        \A w \in Team : pc[w] \in Executing => cur[w] # Slot

\* The parser runs ahead of the copies on its scans alone, and still its
\* registers are those of the serial decoder at the same token.
ParserAgreesWithSerial ==
    pc[Parser] \in Staging \cup {"primed", "handoff", "check", "drained", "stated", "load"} =>
        pos[Parser] = serial[pos[Parser].cmd_pos].pos

\* __syncthreads is convergent: the warps that meet at a barrier are at the same
\* call site, and so are the copier warps at the named barrier.
BarrierConvergence ==
    /\ (\A w \in Warps : pc[w] \in BlockSites) => \A v, w \in Warps : pc[v] = pc[w]
    /\ (\A w \in Team : pc[w] \in TeamSites) => \A v, w \in Team : pc[v] = pc[w]

\* The accesses to dst that warp w makes between two barriers, by lane: what it
\* has done, does and will do before it next waits for another warp.
FlatAccesses(w) ==
    LET s == cur[w]
        Mine(total) == {i \in 0 .. total - 1 : (i % TeamThreads) \div WARP_SIZE = w - 1}
    IN {<<"w", i % TeamThreads, LitWrite(s, i)[1]>> : i \in Mine(head[s].total_lit)}
       \cup {<<"w", i % TeamThreads, ImWrite(s, i)[1]>> : i \in Mine(head[s].total_im)}
       \cup {<<"r", i % TeamThreads, ImRead(s, i)>> : i \in Mine(head[s].total_im)}
       \cup {<<"w", i % TeamThreads, DmWrite(s, i)[1]>> : i \in Mine(head[s].total_dm)}
DependentAccesses ==
    LET s == cur[1]
        Target(k) == {DepTarget(s, k) + i : i \in 0 .. lanes[s].match_len[k] - 1}
    IN UNION {{<<"w", 0, a>> : a \in Target(k)}
              \cup {<<"r", 0, a + lanes[s].match_offset[k]>> : a \in Target(k)} :
              k \in head[s].dep_mask}
Accesses(w) ==
    CASE w # Parser /\ pc[w] \in {"lit", "im", "dm", "flatdone"} -> FlatAccesses(w)
      [] w = 1 /\ pc[w] = "dep" -> DependentAccesses
      [] OTHER -> {}

\* No data race on the output: two lanes of the team never touch the same byte
\* between barriers unless both only read it.
DstRaceFree ==
    \A v, w \in Team : \A a \in Accesses(v), b \in Accesses(w) :
        (v # w \/ a[2] # b[2]) /\ a[3] = b[3] => a[1] = "r" /\ b[1] = "r"

\* The pipelined kernel implements the serial decode: the bytes of the tokens
\* that a barrier has ordered are always those of the one-token-at-a-time path.
Written == LET end == IF AllDone
                      THEN pos[Parser].dst_pos + Trailing(stream, pos[Parser])
                      ELSE serial[committed].pos.dst_pos
           IN [n \in 1 .. end |-> dst[n - 1]]
Serial == INSTANCE SubChunkDecode
            WITH tokens <- committed, out <- Written, finished <- AllDone
RefinesSerial == Serial!Spec

\* Every block finishes, with no fairness between its warps: some warp can
\* always run until all are done.
Termination == <>AllDone
============================================================================
