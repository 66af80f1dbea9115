------------------------------ MODULE BasicLoop ------------------------------
(***************************************************************************)
(* The mechanics of one loop (shoop_engine/src/basic_loop.rs, wrapped by   *)
(* audio_midi_loop.rs): what each operation makes of the loop's record.    *)
(* LoopGroup builds the session's loop processing from these operators.    *)
(*                                                                         *)
(* Three things the code caches are functions of the record here.  The     *)
(* next point of interest is recomputed by every AudioMidiLoop operation   *)
(* (resync_poi), so outside an operation it is always NextPoi; a channel's *)
(* own point of interest only cuts a block shorter.  The predicted trigger *)
(* and the published mirror steer no mechanics.  cycle_count is left out.  *)
(***************************************************************************)
EXTENDS Integers, Sequences

CONSTANT StorageLimit   \* samples a bounded audio channel can hold

ASSUME StorageLimitAssumption == StorageLimit \in Nat

Modes == {"Unknown", "Stopped", "Playing", "Recording", "Replacing",
          "PlayingDryThroughWet", "RecordingDryIntoWet"}

\* LoopMode::is_playing_mode
IsPlaying(mode) == mode \in {"Playing", "Replacing", "PlayingDryThroughWet",
                             "RecordingDryIntoWet"}

(* SyncSourceState.  NoSync is the code's None, which differs from a source *)
(* that is idle; JustSynced is what set_loop_sync_source leaves until the   *)
(* next refresh.                                                            *)
NoSync     == [synced |-> FALSE, mode |-> "Stopped", triggering |-> FALSE,
               pos |-> 0, len |-> 0]
JustSynced == [NoSync EXCEPT !.synced = TRUE]

NewLoop == [mode |-> "Stopped", pos |-> 0, len |-> 0, planned |-> <<>>,
            triggering |-> FALSE, already |-> FALSE, snap |-> NoSync]

(* What a follower keeps of its source, and the record of a loop. *)
Snapshots == [synced : BOOLEAN, mode : Modes, triggering : BOOLEAN, pos : Nat, len : Nat]
Plans == [mode : Modes, delay : Nat]
LoopRecords == [mode : Modes, pos : Nat, len : Nat, planned : Seq(Plans),
                triggering : BOOLEAN, already : BOOLEAN, snap : Snapshots]

\* as_sync_source_state
Snapshot(l) == [synced |-> TRUE, mode |-> l.mode, triggering |-> l.triggering,
                pos |-> l.pos, len |-> l.len]

\* A sync source is set and in a playing mode.
SyncActive(l) == l.snap.synced /\ IsPlaying(l.snap.mode)

Smaller(a, b) == IF a <= b THEN a ELSE b
Greater(a, b) == IF a >= b THEN a ELSE b

\* Planned transitions wait for strictly more triggers from one to the next.
Ascending(planned) ==
  \A j, k \in DOMAIN planned : j < k => planned[j].delay < planned[k].delay

\* Between operations a loop in a playing mode has content, a trigger never makes two
\* of its plans due at once, and a loop that has taken its trigger triggers.
Sane(l) ==
  /\ IsPlaying(l.mode) => l.len > 0
  /\ Ascending(l.planned)
  /\ l.already => l.triggering

-----------------------------------------------------------------------------

\* update_poi's first act: a playing mode without content stops.
StopIfEmpty(l) == IF IsPlaying(l.mode) /\ l.len = 0
                    THEN [l EXCEPT !.mode = "Stopped", !.pos = 0]
                    ELSE l

\* The distance to the loop's end; a loop that is not moving towards its end
\* has no point of interest.
HasPoi(l)  == IsPlaying(l.mode) /\ l.pos < l.len
NextPoi(l) == l.len - l.pos

SetPosition(l, p) == IF p = l.pos THEN l
                     ELSE StopIfEmpty([l EXCEPT !.pos = p])

SetLength(l, n) ==
  IF n = l.len THEN l
  ELSE StopIfEmpty([l EXCEPT !.len = n,
                             !.pos = IF @ < n THEN @
                                     ELSE IF n = 0 THEN 0 ELSE @ % n])

\* handle_transition.  Only one playing mode to another keeps the position,
\* and recording starts from nothing.  A loop that starts from position 0
\* triggers, also when it turns out to be empty and stops at once.
HandleTransition(l, mode) ==
  IF l.mode = mode THEN l
  ELSE LET keep == IsPlaying(l.mode) /\ IsPlaying(mode)
           pos  == IF keep THEN l.pos ELSE 0
       IN StopIfEmpty([l EXCEPT
            !.mode = mode, !.pos = pos,
            !.len = IF mode = "Recording" THEN 0 ELSE @,
            !.triggering = @ \/ (IsPlaying(mode) /\ pos = 0)])

\* trigger's countdown: one cycle less to wait for every planned transition.
CountDown(planned) == [i \in DOMAIN planned |->
                        [planned[i] EXCEPT !.delay = @ - 1]]

\* Mutant: the transition is made and its plan left in the queue.
TriggerKeepsPlan(l) ==
  IF l.already THEN l
  ELSE LET wraps   == IsPlaying(l.mode) /\ l.pos >= l.len
           counted == [l EXCEPT
                         !.already = TRUE, !.triggering = TRUE,
                         !.pos = IF wraps THEN 0 ELSE @,
                         !.planned = CountDown(@)]
       IN IF l.planned # <<>> /\ l.planned[1].delay = 0
            THEN HandleTransition(counted, l.planned[1].mode)
            ELSE counted

\* trigger(true).  The code pops while the front countdown is below zero;
\* the delays ascend, so at most the front is due, and Sane would catch
\* a second one that is left behind.
Trigger(l) ==
  IF l.already THEN l
  ELSE LET wraps   == IsPlaying(l.mode) /\ l.pos >= l.len
           counted == [l EXCEPT
                         !.already = TRUE, !.triggering = TRUE,
                         !.pos = IF wraps THEN 0 ELSE @,
                         !.planned = CountDown(@)]
       IN IF l.planned # <<>> /\ l.planned[1].delay = 0
            THEN [HandleTransition(counted, l.planned[1].mode)
                    EXCEPT !.planned = Tail(@)]
            ELSE counted

\* Mutants: a follower triggers without passing it on; only a playing follower
\* reacts; a follower's trigger flag mirrors its source's.
HandleSyncQuietly(l) == IF l.snap.synced /\ l.snap.triggering
  THEN [StopIfEmpty(Trigger(l)) EXCEPT !.triggering = l.triggering] ELSE l
HandleSyncIfPlaying(l) == IF l.snap.synced /\ l.snap.triggering /\ IsPlaying(l.mode)
  THEN StopIfEmpty(Trigger(l)) ELSE l
HandleSyncMirrors(l) == IF l.snap.synced
  THEN [StopIfEmpty(Trigger(l)) EXCEPT !.triggering = l.snap.triggering] ELSE l

\* handle_sync
HandleSync(l) == IF l.snap.synced /\ l.snap.triggering
                   THEN StopIfEmpty(Trigger(l)) ELSE l

\* process_with advances by n samples, at most to the point of interest, and
\* handle_poi then acts on an end that was reached: the loop triggers itself
\* unless an active sync source is there to do it.
Moved(l, n) ==
  LET fresh == [l EXCEPT !.triggering = FALSE, !.already = FALSE]
  IN CASE l.mode = "Recording" -> [fresh EXCEPT !.len = @ + n]
       [] l.mode = "Replacing" -> [fresh EXCEPT !.pos = @ + n,
                                     !.len = Greater(@, l.pos + n)]
       [] l.mode \notin {"Recording", "Replacing"} /\ IsPlaying(l.mode)
            -> [fresh EXCEPT !.pos = Smaller(@ + n, l.len)]
       [] OTHER -> fresh

ReachesEnd(l, n) == HasPoi(l) /\ n = NextPoi(l)

\* A bounded channel refuses a block it cannot hold as a whole; the loop
\* keeps what the channel has and stops, its plans untouched.
Exhausted(l, n) == l.mode = "Recording" /\ l.len + n > StorageLimit

Process(l, n) ==
  IF Exhausted(l, n)
    THEN HandleTransition(SetPosition(SetLength(Moved(l, n), l.len), 0),
                          "Stopped")
    ELSE IF ReachesEnd(l, n) /\ ~SyncActive(l)
      THEN StopIfEmpty(Trigger(Moved(l, n)))
      ELSE Moved(l, n)

-----------------------------------------------------------------------------
(* Planned transitions.                                                    *)

\* Mutant: a plan for the same trigger is kept beside the new one.
InsertBehind(planned, mode, delay) ==
  LET later == {i \in DOMAIN planned : planned[i].delay > delay}
      kept  == IF later = {} THEN planned
               ELSE SubSeq(planned, 1,
                      (CHOOSE i \in later : \A j \in later : i <= j) - 1)
  IN Append(kept, [mode |-> mode, delay |-> delay])

\* Insert in delay order; a nearer transition drops the ones behind it.
Insert(planned, mode, delay) ==
  LET later == {i \in DOMAIN planned : planned[i].delay >= delay}
      kept  == IF later = {} THEN planned
               ELSE SubSeq(planned, 1,
                      (CHOOSE i \in later : \A j \in later : i <= j) - 1)
  IN Append(kept, [mode |-> mode, delay |-> delay])

\* Mutant: immediate for every loop that is not Playing.
PlanDelayedEagerly(l, mode, delay) ==
  IF l.mode # "Playing"
    THEN [HandleTransition(l, mode) EXCEPT !.planned = <<>>]
    ELSE [l EXCEPT !.planned = Insert(@, mode, delay)]

\* plan_transition with a delay: immediate for a loop that follows nothing
\* and is not Playing, queued otherwise.
PlanDelayed(l, mode, delay) ==
  IF ~l.snap.synced /\ l.mode # "Playing"
    THEN [HandleTransition(l, mode) EXCEPT !.planned = <<>>]
    ELSE [l EXCEPT !.planned = Insert(@, mode, delay)]

\* plan_transition with to_sync_cycle: immediate, and aligned to the source
\* as the loop last saw it.
PlanAligned(l, mode, cycle) ==
  LET moved == HandleTransition(l, mode)
      pos   == l.snap.pos + cycle * l.snap.len
      aligned == IF ~l.snap.synced THEN moved
                 ELSE IF mode = "Recording"
                   THEN SetLength(SetPosition(moved, 0), pos)
                   ELSE SetPosition(moved, pos)
  IN StopIfEmpty([aligned EXCEPT !.planned = <<>>])

\* Loop::clear: the plans go, the loop stops at 0 with the given length.
Clear(l, n) == [l EXCEPT !.planned = <<>>, !.mode = "Stopped", !.pos = 0,
                         !.len = n]
=============================================================================
