------------------------------- MODULE Metadata -------------------------------
(***************************************************************************)
(* The metadata of records (metadata.py, state.py, wrapper.py): which hooks   *)
(* are active in a thread, and how a call runs them before and after its      *)
(* body and joins what they return by their names.  Threads share one clock   *)
(* and the CPU time of the process; calls nest, hand their results in from    *)
(* other threads, and are bound to the hooks of the thread that submits them. *)
(* A hook is [name, kind, says]: a Runtime, Tags that say a function, or a    *)
(* hook that raises.  What the cache answers is left to the other modules:    *)
(* every call here is a miss.                                                 *)
(***************************************************************************)
EXTENDS Naturals, Sequences, FiniteSets, SequencesExt

CONSTANTS
    ProgramThreads,\* threads that run a program
    Runners,      \* threads that run bound calls and done callbacks
    HookChoices,  \* hooks a program passes to meta()
    Own,          \* what fleche(meta=...) may have given a function
    Configured,   \* what [default].metadata may be: sequences of hooks or Unknown
    Unknown,      \* a list with a name that is not configurable
    Runtime,      \* the hook of type Runtime
    MaxBlocks,    \* bound: nested with-blocks
    MaxTicks,     \* bound: steps of bodies
    MaxChanges,   \* bound: uses of meta()
    MaxCalls,     \* bound: calls
    Unset

HookLists == HookChoices \cup Own \cup (Configured \ {Unknown})
AllHooks == {Runtime} \cup UNION {Range(hooks) : hooks \in HookLists}

\* @configurable names a class of hooks; Tags.name and Runtime.name are theirs.
ASSUME HooksAreNamed ==
    /\ HookLists \subseteq Seq(AllHooks)
    /\ \A hook \in AllHooks : hook.kind \in {"tags", "runtime"} => hook.name = hook.kind

VARIABLES
    configured,   \* [default].metadata in the files, Unset where it is not given
    fallback,     \* _DEFAULTS["metadata"]
    active,       \* active[t]: _METADATA in the context of t
    scopes,       \* scopes[t]: what the open with-blocks of t restore, outermost first
    frames,       \* frames[t]: the calls t is in, innermost last
    submitted,    \* hooks of the bound calls that wait for a runner
    pending,      \* calls whose body returned a future that is not settled
    now, cpu,     \* the clock, the CPU time of the process
    changes, begun,\* meta() uses and calls so far
    noted         \* the record filed last, with what its call was, or Unset

contextVars == <<configured, fallback, active, scopes, changes>>
callVars == <<frames, submitted, pending, begun, noted>>
clocks == <<now, cpu>>
metaVars == <<contextVars, callVars, clocks>>

Contexts == ProgramThreads \cup Runners
NoFacts == [k \in {} |-> Unset]

MetaInit ==
    /\ configured \in Configured \cup {Unset}
    /\ fallback = Unset
    /\ active = [t \in Contexts |-> Unset]
    /\ scopes = [t \in Contexts |-> <<>>] /\ frames = [t \in Contexts |-> <<>>]
    /\ submitted = <<>> /\ pending = {} /\ noted = Unset
    /\ now = 0 /\ cpu = 0 /\ changes = 0 /\ begun = 0

\* t runs the program, or the body of a call.
RunsCode(t) == IF frames[t] = <<>> THEN t \in ProgramThreads ELSE Last(frames[t]).phase = "body"

-----------------------------------------------------------------------------
(* The active hooks.                                                        *)

\* load_default_metadata
DefaultHooks == IF configured = Unset THEN <<Runtime>> ELSE configured

\* get_metadata; Unknown raises and is not memoised.
ActiveHooks(t) ==
    CASE active[t] # Unset -> active[t]
      [] active[t] = Unset /\ fallback # Unset -> fallback
      [] OTHER -> DefaultHooks

Memoised(t) == fallback' = IF active[t] = Unset THEN ActiveHooks(t) ELSE fallback

Sets(t, hooks) ==
    /\ changes < MaxChanges /\ changes' = changes + 1
    /\ active' = [active EXCEPT ![t] = hooks]
    /\ \/ UNCHANGED scopes
       \/ Len(scopes[t]) < MaxBlocks /\ scopes' = [scopes EXCEPT ![t] = Append(@, active[t])]
    /\ UNCHANGED <<configured, callVars, clocks>>

\* meta(*new), for good or for a with-block.
Meta(t, new) ==
    /\ RunsCode(t) /\ Sets(t, new) /\ UNCHANGED fallback

\* meta(*new, stack=True), as tags() and project() call it.
Stacked(t, new) ==
    /\ RunsCode(t) /\ ActiveHooks(t) # Unknown
    /\ Memoised(t) /\ Sets(t, ActiveHooks(t) \o new)

\* The body of a call opened the blocks above those it began with.
Outside(t) == IF frames[t] = <<>> THEN 0 ELSE Last(frames[t]).depth

LeaveBlock(t) ==
    /\ RunsCode(t) /\ Len(scopes[t]) > Outside(t)
    /\ active' = [active EXCEPT ![t] = Last(scopes[t])]
    /\ scopes' = [scopes EXCEPT ![t] = Front(@)]
    /\ UNCHANGED <<configured, fallback, changes, callVars, clocks>>

-----------------------------------------------------------------------------
(* A call.                                                                  *)

\* hooks: what the call runs; bound: what was active where it was asked for.
Frame(t, hooks, bound) ==
    [hooks |-> hooks, bound |-> bound, phase |-> "pre", at |-> 1, facts |-> NoFacts,
     depth |-> Len(scopes'[t]), began |-> clocks, body |-> clocks, ended |-> clocks, used |-> 0]

\* The call with its own hooks goes on t.
Enters(t, own, found, bound) ==
    /\ begun < MaxCalls /\ begun' = begun + 1
    /\ frames' = [frames EXCEPT ![t] = Append(@, Frame(t, found \o own, bound \o own))]

CallFunction(t, own) ==
    /\ RunsCode(t) /\ ActiveHooks(t) # Unknown
    /\ UNCHANGED <<configured, active, scopes, changes>>
    /\ Memoised(t)
    /\ Enters(t, own, ActiveHooks(t), ActiveHooks(t))
    /\ UNCHANGED <<submitted, pending, noted, clocks>>

\* BoundWrapper.bind in t.
SubmitBound(t) ==
    /\ RunsCode(t) /\ ActiveHooks(t) # Unknown /\ Len(submitted) < MaxCalls - begun
    /\ Memoised(t)
    /\ submitted' = Append(submitted, ActiveHooks(t))
    /\ UNCHANGED <<configured, active, scopes, changes, frames, pending, begun, noted, clocks>>

\* BoundWrapper.__call__ in a runner: a hard scope around the call.
RunBound(t, own) ==
    /\ t \in Runners /\ frames[t] = <<>> /\ submitted # <<>>
    /\ active' = [active EXCEPT ![t] = Head(submitted)]
    /\ scopes' = [scopes EXCEPT ![t] = <<active[t]>>]
    /\ submitted' = Tail(submitted)
    /\ Enters(t, own, active'[t], Head(submitted))
    /\ UNCHANGED <<configured, fallback, changes, pending, noted, clocks>>

Top(t) == Last(frames[t])
Becomes(t, frame) == frames' = [frames EXCEPT ![t] = Append(Front(@), frame)]
InPhase(t, phase) == frames[t] # <<>> /\ Top(t).phase = phase

\* The call is over: blocks its body left open are closed, and so is the hard
\* scope of a bound call.
Over(t) ==
    LET outer == IF Len(frames[t]) = 1 /\ t \in Runners THEN 0 ELSE Top(t).depth
    IN  /\ frames' = [frames EXCEPT ![t] = Front(@)]
        /\ IF Len(scopes[t]) > outer
           THEN /\ active' = [active EXCEPT ![t] = scopes[t][outer + 1]]
                /\ scopes' = [scopes EXCEPT ![t] = SubSeq(@, 1, outer)]
           ELSE UNCHANGED <<active, scopes>>

\* A dict updated by another.
Joined(old, new) ==
    [k \in DOMAIN old \cup DOMAIN new |-> IF k \in DOMAIN new THEN new[k] ELSE old[k]]
Noted(facts, name) == IF name \in DOMAIN facts THEN facts[name] ELSE NoFacts

Pre(hook) ==
    CASE hook.kind = "runtime" -> [timestart |-> now, cputime |-> cpu]
      [] hook.kind = "tags"    -> hook.says
      [] OTHER                 -> NoFacts

Post(hook, pre) ==
    CASE hook.kind = "runtime" -> [timestop |-> now, walltime |-> now - pre.timestart,
                                   cputime |-> cpu - pre.cputime]
      [] OTHER                 -> NoFacts

\* A bug: a hook that the body deactivated is not asked again.
CurrentHooks(t) == SelectSeq(Top(t).hooks, LAMBDA hook : hook \in Range(ActiveHooks(t)))

\* The hooks that are run after the body are those that were run before it.
PostHooks(t) == Top(t).hooks

\* One hook returns what it has to say: it is joined under the name of the hook.
Told(frame, hook, said) ==
    [frame EXCEPT !.at = frame.at + 1,
                  !.facts = Joined(frame.facts, [n \in {hook.name} |-> Joined(Noted(frame.facts, n), said)])]
Says(t, hook, said) == Becomes(t, Told(Top(t), hook, said))

RunPre(t) ==
    /\ InPhase(t, "pre") /\ Top(t).at <= Len(Top(t).hooks)
    /\ LET hook == Top(t).hooks[Top(t).at] IN
         /\ hook.kind # "raises before"
         /\ Says(t, hook, Pre(hook))
    /\ UNCHANGED <<contextVars, clocks, submitted, pending, begun, noted>>

BodyStarts(t) ==
    /\ InPhase(t, "pre") /\ Top(t).at > Len(Top(t).hooks)
    /\ Becomes(t, [Top(t) EXCEPT !.phase = "body", !.at = 1, !.body = clocks])
    /\ UNCHANGED <<contextVars, clocks, submitted, pending, begun, noted>>

Ages(frame, burnt) == [frame EXCEPT !.used = frame.used + burnt]

\* The body runs for a while, on the CPU or not, and so do the calls around it.
Runs(t, burnt) ==
    /\ InPhase(t, "body") /\ now < MaxTicks
    /\ now' = now + 1 /\ cpu' = cpu + burnt
    /\ frames' = [frames EXCEPT ![t] = [i \in DOMAIN @ |-> Ages(@[i], burnt)]]
    /\ UNCHANGED <<contextVars, submitted, pending, begun, noted>>

BodyDone(t) ==
    /\ InPhase(t, "body") /\ Len(scopes[t]) = Top(t).depth
    /\ Becomes(t, [Top(t) EXCEPT !.phase = "post", !.ended = clocks])
    /\ UNCHANGED <<contextVars, clocks, submitted, pending, begun, noted>>

\* The body returns a future.
BodyDefers(t) ==
    /\ InPhase(t, "body") /\ Len(scopes[t]) = Top(t).depth
    /\ pending' = pending \cup {Top(t)}
    /\ Over(t)
    /\ UNCHANGED <<configured, fallback, changes, clocks, submitted, begun, noted>>

\* A runner settles it and runs the done callback.
Settles(t, frame) ==
    /\ t \in Runners /\ frames[t] = <<>>
    /\ pending' = pending \ {frame}
    /\ frames' = [frames EXCEPT ![t] = <<[frame EXCEPT !.phase = "post", !.ended = clocks]>>]
    /\ UNCHANGED <<contextVars, clocks, submitted, begun, noted>>

RunPost(t) ==
    /\ InPhase(t, "post") /\ Top(t).at <= Len(PostHooks(t))
    /\ LET hook == PostHooks(t)[Top(t).at] IN
         /\ hook.kind # "raises after"
         /\ Says(t, hook, Post(hook, Noted(Top(t).facts, hook.name)))
    /\ UNCHANGED <<contextVars, clocks, submitted, pending, begun, noted>>

\* prepared.commit(result, metadata)
Note(t) ==
    /\ InPhase(t, "post") /\ Top(t).at > Len(PostHooks(t))
    /\ noted' = [call |-> Top(t), written |-> clocks]
    /\ Over(t)
    /\ UNCHANGED <<configured, fallback, changes, clocks, submitted, pending, begun>>

\* A hook or the body raises, or the result is None: nothing is filed.
NotesNothing(t) ==
    /\ frames[t] # <<>>
    /\ LET frame == Top(t)
           raising == IF frame.phase = "pre" THEN "raises before" ELSE "raises after"
       IN  \/ frame.phase = "body"
           \/ frame.at <= Len(frame.hooks) /\ frame.hooks[frame.at].kind = raising
    /\ Over(t)
    /\ UNCHANGED <<configured, fallback, changes, clocks, submitted, pending, begun, noted>>

CallSteps(t) ==
    \/ RunPre(t) \/ BodyStarts(t) \/ (\E burnt \in 0 .. 1 : Runs(t, burnt))
    \/ BodyDone(t) \/ BodyDefers(t) \/ RunPost(t) \/ Note(t) \/ NotesNothing(t)

MetaNext ==
    \E t \in Contexts :
        \/ \E new \in HookChoices : Meta(t, new) \/ Stacked(t, new)
        \/ LeaveBlock(t) \/ SubmitBound(t) \/ CallSteps(t)
        \/ \E own \in Own : CallFunction(t, own) \/ RunBound(t, own)
        \/ \E frame \in pending : Settles(t, frame)

MetaSpec == MetaInit /\ [][MetaNext]_metaVars

-----------------------------------------------------------------------------
\* The i-th hook has the last word on the tag k.
HasTag(hook, k) == hook.kind = "tags" /\ k \in DOMAIN hook.says
LastWord(hooks, i, k) == HasTag(hooks[i], k) /\ \A j \in DOMAIN hooks : HasTag(hooks[j], k) => j <= i

Count(hooks, kind) == Cardinality({i \in DOMAIN hooks : hooks[i].kind = kind})

\* A record tells its own call (metadata.py, Runtime and Tags): the tags that
\* were active where the call was made or submitted, whatever bodies activate
\* meanwhile and whichever thread files it; the time from before its body to
\* after it; and at least the CPU time of its own body, at most what the process
\* used until it was filed.  The last is not so where two Runtimes run under one
\* name (README, observations).
RecordsTellTheirCalls == noted # Unset =>
    LET call == noted.call
        facts == Noted(call.facts, "runtime")
        tags == Noted(call.facts, "tags")
    IN  /\ \A i \in DOMAIN call.bound : \A k \in DOMAIN call.bound[i].says : LastWord(call.bound, i, k) =>
             k \in DOMAIN tags /\ tags[k] = call.bound[i].says[k]
        /\ DOMAIN call.facts = {call.bound[i].name : i \in DOMAIN call.bound}
        /\ Count(call.bound, "runtime") > 0 =>
             /\ {"timestart", "timestop", "walltime", "cputime"} = DOMAIN facts
             /\ call.began[1] <= facts.timestart /\ facts.timestart <= call.body[1]
             /\ call.ended[1] <= facts.timestop /\ facts.timestop <= noted.written[1]
             /\ facts.walltime = facts.timestop - facts.timestart
        /\ Count(call.bound, "runtime") = 1 =>
             /\ call.used <= facts.cputime
             /\ facts.cputime <= noted.written[2] - call.began[2]
=============================================================================
