-------------------------- MODULE ContentSnapshots --------------------------
(***************************************************************************)
(* The recorded content of one audio channel, as it travels from the audio *)
(* thread to readers: content_snapshot/ and its callers in                  *)
(* audio_channel.rs and app_backend.rs.  Five actors meet here.  The       *)
(* control thread prepares loads and asks for clears and resizes; the      *)
(* audio thread changes the content and describes every change in a pool   *)
(* of update blocks; the publisher thread rebuilds the content from the    *)
(* blocks and stores manifests; readers ask for the exact current content; *)
(* and ContentStatus, a handful of atomics, is to tell a reader whether a  *)
(* manifest is current.                                                    *)
(*                                                                         *)
(* Content is the set of the changes it is made of, each named by its      *)
(* revision; a change whose update found no room is Lost.  One update is   *)
(* one block.  The audio thread's callback applies commands, then runs its *)
(* sub-blocks, which start and stop recordings and queue copies of samples, *)
(* and applies the copies last, whatever has stopped meanwhile.            *)
(* Pre-recording, the MIDI twin and retirement are left out, and so are    *)
(* recordings whose first copy fails for want of storage.                  *)
(***************************************************************************)
EXTENDS Naturals, Sequences, FiniteSets

CONSTANTS
    Blocks,        \* blocks of the update transport
    MaxCommands,   \* bound: content commands in flight to the audio thread
    MaxRevisions,  \* bound: revisions handed out
    MaxCopies,     \* bound: copies queued within a callback
    Beyond         \* bound: whether behaviours are followed once exactness is given up

ASSUME BlocksAssumption == Blocks \in Nat \ {0}
ASSUME BoundsAssumption ==
    MaxCommands \in Nat \ {0} /\ MaxRevisions \in Nat \ {0} /\ MaxCopies \in Nat \ {0}
ASSUME BeyondAssumption == Beyond \in BOOLEAN

VARIABLES
    content,     \* what the channel holds
    phase,       \* "idle", "recording" or "replacing": snapshot_mutation(prev_process_flags)
    step,        \* audio thread: "free", inside finish_mutation: "settle", "release", or
                 \* inside finalize_process: "finalize"
    queued,      \* copies the callback's sub-blocks have queued
    latest,      \* the writer's latest_revision
    commands,    \* content commands on their way to the audio thread
    control,     \* control thread: the command it announced and has yet to send
    status,      \* ContentStatus
    updates,     \* the update transport, oldest block first
    unseen,      \* prepared loads in the publisher's channel
    prepared,    \* prepared_by_revision
    publisher,   \* the publisher thread
    manifest,    \* the manifest readers load
    reader,      \* one reader inside try_current
    late,        \* history: copies applied when their recording was over
    unrepaired,  \* history: an update was lost and no replacing update was queued since
    excuses      \* history: why exactness may have been given up

vars == <<content, phase, step, queued, latest, commands, control, status, updates,
          unseen, prepared, publisher, manifest, reader, late, unrepaired, excuses>>

Lost == 0
Revisions == 1..MaxRevisions
Contents == SUBSET (0..MaxRevisions)
Mutations == {"none", "loading", "clearing", "recording", "replacing"}
Kinds == {"working", "range", "final", "truncate", "silence", "install"}
NoBlock == [kind |-> "working", rev |-> 0, publish |-> FALSE]
NoCommand == [kind |-> "none", rev |-> 0]
ClearCommand == [kind |-> "clear", rev |-> 0]
Unannounced == {[kind |-> "clear loop", rev |-> 0], [kind |-> "resize loop", rev |-> 0]}
LoadCommand(rev) == [kind |-> "load", rev |-> rev]
AllCommands == {ClearCommand} \cup Unannounced \cup {LoadCommand(rev) : rev \in Revisions}
UpdateBlocks == [kind : Kinds, rev : 0..MaxRevisions, publish : BOOLEAN]
Idle == [pc |-> "idle", settled |-> 0, since |-> {}]

TypeOK ==
    /\ content \in Contents
    /\ phase \in {"idle", "recording", "replacing"}
    /\ step \in {"free", "settle", "release", "finalize"}
    /\ queued \in 0..MaxCopies
    /\ latest \in 0..MaxRevisions
    /\ commands \in Seq(AllCommands) /\ Len(commands) <= MaxCommands
    /\ control \in {NoCommand} \cup AllCommands
    /\ status \in [mutation : Mutations, next : 1..MaxRevisions + 1,
                   settled : 0..MaxRevisions, published : 0..MaxRevisions,
                   saturated : BOOLEAN]
    /\ updates \in Seq(UpdateBlocks) /\ Len(updates) <= Blocks
    /\ unseen \subseteq Revisions /\ prepared \subseteq Revisions
    /\ publisher \in [pc : {"pumping", "mark"}, chunks : Contents, committed : Contents,
                      block : UpdateBlocks]
    /\ manifest \in [rev : 0..MaxRevisions, content : Contents]
    /\ reader \in [pc : {"idle", "mutation", "published", "manifest", "late answer",
                         "wrong answer"},
                   settled : 0..MaxRevisions, since : SUBSET Contents]
    /\ late \subseteq Revisions /\ unrepaired \in BOOLEAN
    /\ excuses \subseteq {"overlap", "early recovery"}

Init ==
    /\ content = {} /\ phase = "idle" /\ step = "free" /\ queued = 0 /\ latest = 0
    /\ commands = <<>> /\ control = NoCommand
    /\ status = [mutation |-> "none", next |-> 1, settled |-> 0, published |-> 0,
                 saturated |-> FALSE]
    /\ updates = <<>> /\ unseen = {} /\ prepared = {}
    /\ publisher = [pc |-> "pumping", chunks |-> {}, committed |-> {}, block |-> NoBlock]
    /\ manifest = [rev |-> 0, content |-> {}]
    /\ reader = Idle
    /\ late = {} /\ unrepaired = FALSE /\ excuses = {}

-----------------------------------------------------------------------------
(* ContentStatus and the transport, as the other parts use them. *)

\* A read that is under way remembers what the channel held meanwhile; bound: a read
\* under which an update is lost is not followed any further.
Observe(held, lost) ==
    reader' = IF reader.pc = "idle" \/ lost THEN Idle
              ELSE [reader EXCEPT !.since = @ \cup {held}]

\* begin_mutation: only one mutation is ever announced.
Begun(mutation) == IF status.mutation = "none" THEN mutation ELSE status.mutation

\* A block the publisher has popped is not yet back in the pool.
Fits(queue) == Len(queue) + (IF publisher.pc = "mark" THEN 1 ELSE 0) < Blocks

Block(kind, rev, publish) == [kind |-> kind, rev |-> rev, publish |-> publish]

\* begin_working_generation
WithWorking == IF Fits(updates) THEN Append(updates, NoBlock) ELSE updates

\* publish_range_kind, publish_silence: behind what is queued already, one update that
\* takes the next revision, or none at all when there is no room for it.
Publish(queue, kind, publish, saturated) ==
    LET fits == Fits(queue)
        rev == status.next
    IN  /\ fits => rev \in Revisions
        /\ updates' = IF fits THEN Append(queue, Block(kind, rev, publish)) ELSE queue
        /\ latest' = IF fits THEN rev ELSE latest
        /\ unrepaired' = IF fits /\ kind = "silence" THEN FALSE
                         ELSE unrepaired \/ saturated \/ ~fits

\* Bound: a revision is left for each of the queued copies and for one update more.
Spare == status.next + queued \in Revisions

Named(queue) == IF Fits(queue) THEN status.next ELSE Lost

StatusAfter(queue, mutation, saturated) ==
    [status EXCEPT !.mutation = mutation,
                   !.next = IF Fits(queue) THEN @ + 1 ELSE @,
                   !.saturated = @ \/ saturated \/ ~Fits(queue)]

-----------------------------------------------------------------------------
(* The control thread. *)

\* AudioChannel::load_data up to prepare: announces the load, takes its revision and
\* hands the samples to the publisher.
PrepareLoad ==
    /\ control = NoCommand /\ status.mutation = "none" /\ Spare
    /\ status' = [status EXCEPT !.mutation = "loading", !.next = @ + 1]
    /\ control' = LoadCommand(status.next)
    /\ unseen' = unseen \cup {status.next}
    /\ UNCHANGED <<content, phase, step, queued, latest, commands, updates, prepared, publisher,
                   manifest, reader, late, unrepaired, excuses>>

\* AudioChannel::clear up to begin_mutation.
BeginClear ==
    /\ control = NoCommand /\ status.mutation = "none"
    /\ status' = [status EXCEPT !.mutation = "clearing"]
    /\ control' = ClearCommand
    /\ UNCHANGED <<content, phase, step, queued, latest, commands, updates, unseen, prepared,
                   publisher, manifest, reader, late, unrepaired, excuses>>

\* with_mut accepts the command.
SendAccepted ==
    /\ control # NoCommand /\ Len(commands) < MaxCommands
    /\ commands' = Append(commands, control)
    /\ control' = NoCommand
    /\ UNCHANGED <<content, phase, step, queued, latest, status, updates, unseen, prepared,
                   publisher, manifest, reader, late, unrepaired, excuses>>

\* Mutant: a refused load or clear leaves its mutation announced.
SendRefusedKeeps ==
    /\ control # NoCommand
    /\ control' = NoCommand
    /\ UNCHANGED <<content, phase, step, queued, latest, commands, status, updates, unseen,
                   prepared, publisher, manifest, reader, late, unrepaired, excuses>>

\* with_mut refuses it, because the command queue is full of other commands or the engine
\* is gone: the mutation is cancelled.
SendRefused ==
    /\ control # NoCommand
    /\ control' = NoCommand
    /\ status' = [status EXCEPT !.mutation = "none"]
    /\ UNCHANGED <<content, phase, step, queued, latest, commands, updates, unseen, prepared,
                   publisher, manifest, reader, late, unrepaired, excuses>>

\* The loop of the channel is cleared (Loop::clear) or resized (Session::resize_loop) by
\* command: nothing is announced beforehand.
SendUnannounced ==
    /\ control = NoCommand /\ Len(commands) < MaxCommands
    /\ commands' \in {Append(commands, command) : command \in Unannounced}
    /\ UNCHANGED <<content, phase, step, queued, latest, control, status, updates, unseen,
                   prepared, publisher, manifest, reader, late, unrepaired, excuses>>

-----------------------------------------------------------------------------
(* The audio thread.  A command begins the mutation, changes the content  *)
(* and queues the update in one step of the callback, before its first    *)
(* sub-block.  finish_mutation is two more steps.                         *)

\* The samples are replaced as a whole: AudioChannel::clear and silence.
ReplaceAll(kind, announced) ==
    /\ Publish(WithWorking, kind, TRUE, FALSE)
    /\ content' = {Named(WithWorking)}
    /\ status' = StatusAfter(WithWorking, Begun("clearing"), ~Fits(updates))
    /\ excuses' = excuses \cup (IF status.mutation # announced THEN {"overlap"} ELSE {})
    /\ Observe(content', ~Fits(WithWorking))
    /\ step' = "settle"
    /\ UNCHANGED <<phase, queued, control, unseen, prepared, publisher, manifest, late>>

\* Commands are applied before the sub-blocks of the callback.
Applies(kind) == step = "free" /\ queued = 0 /\ commands # <<>> /\ Head(commands).kind = kind

ApplyClear ==
    /\ Applies("clear")
    /\ commands' = Tail(commands)
    /\ ReplaceAll("truncate", "clearing")

ApplyClearLoop ==
    /\ Applies("clear loop")
    /\ commands' = Tail(commands)
    /\ ReplaceAll("truncate", "none")

ApplyResizeLoop ==
    /\ Applies("resize loop")
    /\ commands' = Tail(commands)
    /\ ReplaceAll("silence", "none")

\* commit_prepared_data_and_snapshot, with install_prepared: a full transport leaves the
\* mutation unfinished.
ApplyLoad ==
    /\ Applies("load")
    /\ commands' = Tail(commands)
    /\ content' = {Head(commands).rev}
    /\ excuses' = excuses \cup
                  (IF status.mutation # "loading" \/ phase # "idle" THEN {"overlap"} ELSE {})
    /\ Observe(content', ~Fits(updates))
    /\ IF Fits(updates)
       THEN /\ updates' = Append(updates, Block("install", Head(commands).rev, TRUE))
            /\ latest' = Head(commands).rev
            /\ step' = "settle"
            /\ unrepaired' = FALSE
            /\ UNCHANGED status
       ELSE /\ status' = [status EXCEPT !.saturated = TRUE]
            /\ unrepaired' = TRUE
            /\ UNCHANGED <<updates, latest, step>>
    /\ UNCHANGED <<phase, queued, control, unseen, prepared, publisher, manifest, late>>

\* process_record, process_replace: the copy of a sub-block waits for the callback's end.
QueueCopy == Spare /\ queued < MaxCopies /\ queued' = queued + 1

\* The process flags start to record or to replace, and the first copy is queued.
Start(mutation) ==
    /\ step = "free" /\ phase = "idle"
    /\ QueueCopy
    /\ phase' = mutation
    /\ updates' = WithWorking
    /\ status' = [status EXCEPT !.mutation = Begun(mutation),
                                !.saturated = @ \/ ~Fits(updates)]
    /\ unrepaired' = (unrepaired \/ ~Fits(updates))
    /\ excuses' = excuses \cup (IF status.mutation # "none" THEN {"overlap"} ELSE {})
    /\ Observe(content, ~Fits(updates))
    /\ UNCHANGED <<content, step, latest, commands, control, unseen, prepared, publisher,
                   manifest, late>>

\* A further sub-block records or replaces.
GoOn ==
    /\ step = "free" /\ phase # "idle"
    /\ QueueCopy
    /\ UNCHANGED <<content, phase, step, latest, commands, control, status, updates, unseen,
                   prepared, publisher, manifest, reader, late, unrepaired, excuses>>

\* finalize_process, one of the queued copies: the channel takes the samples and their
\* update is queued, to be published at once unless the channel is replacing now.  The
\* copy is late when its recording has stopped, settled and released in a sub-block.
WriteRange ==
    /\ step \in {"free", "finalize"} /\ queued > 0
    /\ queued' = queued - 1
    /\ step' = IF queued = 1 THEN "free" ELSE "finalize"
    /\ Publish(updates, "range", phase # "replacing", FALSE)
    /\ content' = content \cup {Named(updates)}
    /\ status' = StatusAfter(updates, status.mutation, FALSE)
    /\ Observe(content', ~Fits(updates))
    /\ late' = late \cup (IF phase = "idle" /\ Fits(updates) THEN {status.next} ELSE {})
    /\ excuses' = excuses \cup
                  (IF phase = "idle" /\ status.mutation = "loading" THEN {"overlap"} ELSE {})
    /\ UNCHANGED <<phase, commands, control, unseen, prepared, publisher, manifest>>

\* The flags stop at a sub-block, before its callback's copies are applied: a replacement
\* publishes what it gathered, with an empty final range.
Stop ==
    /\ step = "free" /\ phase # "idle"
    /\ phase = "replacing" => Spare
    /\ phase' = "idle" /\ step' = "settle"
    /\ IF phase = "replacing"
       THEN /\ Publish(updates, "final", TRUE, FALSE)
            /\ status' = StatusAfter(updates, status.mutation, FALSE)
            /\ Observe(content, ~Fits(updates))
       ELSE UNCHANGED <<updates, latest, unrepaired, status, reader>>
    /\ UNCHANGED <<content, queued, commands, control, unseen, prepared, publisher,
                   manifest, late, excuses>>

\* Mutant: the mutation ends without settling its revision.
SettleForgotten ==
    /\ step = "settle"
    /\ step' = "release"
    /\ status' = [status EXCEPT !.mutation = "none"]
    /\ UNCHANGED <<content, phase, queued, latest, commands, control, updates, unseen, prepared,
                   publisher, manifest, reader, late, unrepaired, excuses>>

\* ContentStatus::finish_mutation: the revision is settled first ...
Settle ==
    /\ step = "settle"
    /\ step' = "release"
    /\ status' = [status EXCEPT !.settled = latest]
    /\ UNCHANGED <<content, phase, queued, latest, commands, control, updates, unseen, prepared,
                   publisher, manifest, reader, late, unrepaired, excuses>>

\* ... and then whatever mutation is announced is over.
Release ==
    /\ step = "release"
    /\ step' = "free"
    /\ status' = [status EXCEPT !.mutation = "none"]
    /\ UNCHANGED <<content, phase, queued, latest, commands, control, updates, unseen, prepared,
                   publisher, manifest, reader, late, unrepaired, excuses>>

ApplyCommand == ApplyClear \/ ApplyClearLoop \/ ApplyResizeLoop \/ ApplyLoad
FinishMutation == Settle \/ Release

AudioStep ==
    \/ ApplyCommand \/ FinishMutation
    \/ \E mutation \in {"recording", "replacing"} : Start(mutation)
    \/ GoOn \/ WriteRange \/ Stop

-----------------------------------------------------------------------------
(* The publisher thread: one pump after another. *)

\* One pump has emptied the transport and the next drains the prepared loads first.
NextPump ==
    /\ publisher.pc = "pumping" /\ updates = <<>> /\ unseen # {}
    /\ prepared' = prepared \cup unseen /\ unseen' = {}
    /\ UNCHANGED <<content, phase, step, queued, latest, commands, control, status, updates,
                   publisher, manifest, reader, late, unrepaired, excuses>>

\* pump_updates, one block: what the private builder holds after it.
Built(block) ==
    CASE block.kind = "working" -> publisher.committed
      [] block.kind = "range" -> publisher.chunks \cup {block.rev}
      [] block.kind = "final" -> publisher.chunks
      [] OTHER -> {block.rev}

\* Mutant: only what was drained before the pump is known.
KnownLoadsEarly(block) == prepared

\* An install drains the prepared loads again: its command may have overtaken them.
KnownLoads(block) == IF block.kind = "install" THEN prepared \cup unseen ELSE prepared

TakeUpdate ==
    /\ publisher.pc = "pumping" /\ updates # <<>>
    /\ LET block == Head(updates)
           known == KnownLoads(block)
           missing == block.kind = "install" /\ block.rev \notin known
           built == IF missing THEN publisher.chunks ELSE Built(block)
           visible == block.publish /\ ~missing
       IN  /\ updates' = Tail(updates)
           /\ prepared' = known \ {block.rev}
           /\ unseen' = IF block.kind = "install" THEN unseen \ known ELSE unseen
           /\ publisher' = [pc |-> IF visible THEN "mark" ELSE "pumping", chunks |-> built,
                            committed |-> IF visible THEN built ELSE publisher.committed,
                            block |-> block]
           /\ manifest' = IF visible THEN [rev |-> block.rev, content |-> built] ELSE manifest
    /\ UNCHANGED <<content, phase, step, queued, latest, commands, control, status, reader,
                   late, unrepaired, excuses>>

\* mark_published, and recover_saturation after a silence or an install.
MarkPublished ==
    /\ publisher.pc = "mark"
    /\ LET block == publisher.block
           recovers == block.kind \in {"silence", "install"}
       IN  /\ status' = [status EXCEPT !.published = IF block.rev > @ THEN block.rev ELSE @,
                                       !.saturated = @ /\ ~recovers]
           /\ excuses' = excuses \cup
                         (IF recovers /\ unrepaired THEN {"early recovery"} ELSE {})
    /\ publisher' = [publisher EXCEPT !.pc = "pumping", !.block = NoBlock]
    /\ UNCHANGED <<content, phase, step, queued, latest, commands, control, updates, unseen,
                   prepared, manifest, reader, late, unrepaired>>

PublisherStep == NextPump \/ TakeUpdate \/ MarkPublished

-----------------------------------------------------------------------------
(* A reader: try_current, one load after another (the settled revision is  *)
(* loaded with the value before it: it is loaded once more).  A load that  *)
(* says stale ends the call with its typed reason, and so does a right     *)
(* answer.                                                                 *)

Everything == <<content, phase, step, queued, latest, commands, control, status, updates,
                unseen, prepared, publisher, manifest, late, unrepaired, excuses>>

Reads(pc, next, on) ==
    /\ reader.pc = pc
    /\ reader' = IF on THEN next ELSE Idle
    /\ UNCHANGED Everything

LoadSaturated ==
    Reads("idle", [pc |-> "mutation", settled |-> 0, since |-> {content}], ~status.saturated)
LoadMutation ==
    Reads("mutation", [reader EXCEPT !.pc = "published", !.settled = status.settled],
          status.mutation = "none")
LoadPublished ==
    Reads("published", [reader EXCEPT !.pc = "manifest", !.settled = status.settled],
          status.published >= reader.settled)

\* The manifest lacks of this content late copies only, which are to be published after it.
Behind(held) ==
    /\ manifest.content \subseteq held
    /\ held \ manifest.content \subseteq {rev \in late : rev > manifest.rev}

\* The manifest is loaded last: an older one than the settled revision is refused.
\* Content the channel did not hold during the read is a late answer when it lacks late
\* copies only, and a wrong answer else; the reader changes nothing, so it stops there.
LoadManifest ==
    Reads("manifest",
          [reader EXCEPT !.pc = IF \E held \in reader.since : Behind(held)
                                THEN "late answer" ELSE "wrong answer"],
          manifest.rev >= reader.settled /\ manifest.content \notin reader.since)

ReaderStep ==
    \/ LoadSaturated \/ LoadMutation \/ LoadPublished
    \/ LoadManifest

-----------------------------------------------------------------------------
\* The bound Beyond.
Followed == Beyond \/ excuses = {}

Next ==
    /\ Followed
    /\ \/ PrepareLoad \/ BeginClear \/ SendAccepted \/ SendRefused \/ SendUnannounced
       \/ AudioStep \/ PublisherStep \/ ReaderStep

\* The audio callback returns: every one applies the commands there are before its
\* sub-blocks (hence SF) and its copies after them.  The publisher polls every
\* millisecond, and a control call that began a mutation goes on to send its command.
Fairness ==
    /\ SF_vars(Followed /\ ApplyCommand)
    /\ WF_vars(Followed /\ WriteRange)
    /\ WF_vars(Followed /\ FinishMutation)
    /\ WF_vars(Followed /\ PublisherStep)
    /\ WF_vars(Followed /\ (SendAccepted \/ SendRefused))

Spec == Init /\ [][Next]_vars /\ Fairness

-----------------------------------------------------------------------------
(* Properties. *)

\* An exact read answers with content the channel held at some moment of the read, through
\* recordings, replacements, loads, clears and a transport that overflows.  It may lack one
\* thing: copies of a recording that ended inside a callback, applied after their recording
\* has settled and on their way to the publisher.  Nor does it hold when two mutations
\* overlapped, saturation was taken back too early, or an update was lost under the read
\* (try_current against finish_mutation, finalize_process and the publisher).
ExactReadsAreCurrent == excuses = {} => reader.pc # "wrong answer"

\* Content that has settled and copies applied late are published in the end, or the
\* channel says it is saturated: no update is left behind, an install that overtook its
\* prepared samples included (pump and the second drain_prepared).
SettledIsPublished ==
    LET Excused == status.saturated \/ excuses # {}
    IN  /\ status.mutation = "none" /\ status.published < status.settled
             ~> (status.published >= status.settled \/ Excused)
        /\ \A rev \in Revisions : rev \in late ~> (status.published >= rev \/ Excused)

\* A load that was announced ends, whether its command is accepted or refused: or the
\* channel says it is saturated (load_data, install_prepared).
LoadsEnd == status.mutation = "loading" ~> 
    (status.mutation # "loading" \/ status.saturated \/ excuses # {})

\* What content_snapshot/mod.rs promises without exception: an exact read is exact.
EveryExactReadIsCurrent == reader.pc \notin {"late answer", "wrong answer"}
=============================================================================
