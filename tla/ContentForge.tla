----------------------------- MODULE ContentForge -----------------------------
(***************************************************************************)
(* ContentForge.forge_video and the classes it drives (modules/             *)
(* content_forge): the voiceover, the background, the B-roll, the music,    *)
(* the captions, the assembly and the thumbnail of one video.  Processes    *)
(* forge videos of one brand; nothing keeps two of them apart.              *)
(*                                                                          *)
(* Voiceovers, videos and thumbnails have a file of their own (two forges   *)
(* begun in the same second aside).  Captions, the prepared background, the *)
(* mixed audio and the key frame have one per brand: a variable says whose  *)
(* it is, and nobody removes them.  A clip of the library is downloaded     *)
(* into a file that a later download takes for complete when it exists;     *)
(* music is fetched in the same way, into a directory without rows, and is  *)
(* no variable here.                                                        *)
(***************************************************************************)
EXTENDS Integers, JobStates

CONSTANTS
    Procs,
    TTS_WAITS,   \* times generate_voiceover waits for the scheduler: 12
    VIDEO_WAITS  \* times assemble_video does: 24

ASSUME WaitsAssumption == TTS_WAITS \in Nat /\ VIDEO_WAITS \in Nat

Parts == {"captions", "background", "audio", "frame"}

VARIABLES
    pc,          \* where each process is
    load,        \* where its download is, if one is under way
    waits,       \* times it waited for the scheduler
    job,         \* the state of its job, or "none" when it forges nothing
    shared,      \* whose each of the brand's shared files is
    taken,       \* what each part of a video was made of
    clip,        \* the file of a clip: "absent", "partial" or "whole"
    opener,      \* who opened it last, while it writes
    row,         \* the clip is in background_library
    overlapped,  \* history: another forge was at work at some time of this one
    doubled      \* history: the clip was opened for a download when it was there

library == <<load, clip, opener, row, doubled>>
video == <<shared, taken, overlapped>>
vars == <<pc, waits, job, library, video>>

Nothing == [part \in Parts |-> "none"]

Init ==
    /\ pc = [p \in Procs |-> "idle"]
    /\ load = [p \in Procs |-> "none"]
    /\ waits = [p \in Procs |-> 0]
    /\ job = [p \in Procs |-> "none"]
    /\ shared = [part \in Parts |-> "old"]
    /\ taken = [p \in Procs |-> Nothing]
    /\ clip = "absent"
    /\ opener = "none"
    /\ row = FALSE
    /\ overlapped = [p \in Procs |-> FALSE]
    /\ doubled = FALSE

Goto(p, label) == pc' = [pc EXCEPT ![p] = label]

Forging(p) == pc[p] \notin {"idle", "maintain"}

-----------------------------------------------------------------------------
(* The job's state.                                                         *)

\* The forge of a job that is new here (or failed, which is left in the same way),
\* or of one that retry_job set back.  Without a job_id no transition is made, and
\* all else is the same.
ForgeVideo(p) ==
    /\ pc[p] = "idle"
    /\ Goto(p, "queued")
    /\ \E s \in {"script_safety_check", "tts_queued"} :
          job' = [job EXCEPT ![p] = s]
    /\ overlapped' = [q \in Procs |->
          IF q = p THEN \E r \in Procs \ {p} : Forging(r)
                   ELSE overlapped[q] \/ Forging(q)]
    /\ UNCHANGED <<waits, library, shared, taken>>

\* An exception, or an assembly that failed: forge_video returns what it has, and
\* the job stays as it is.
Fails(p) == Goto(p, "failed") /\ UNCHANGED job

\* state_machine.transition; a transition that is not allowed raises, and so does a
\* database that cannot be had.
Transition(p, here, s, there) ==
    /\ pc[p] = here
    /\ \/ /\ s \in Allowed(job[p])
          /\ Goto(p, there) /\ job' = [job EXCEPT ![p] = s]
       \/ Fails(p)
    /\ UNCHANGED <<waits, library, video>>

MarkQueued(p) == Transition(p, "queued", "tts_queued", "voice")
MarkVoiced(p) == Transition(p, "voiced", "tts_done", "background")
MarkAssembly(p) == Transition(p, "assembly", "video_assembly", "prepare")
MarkAssembled(p) == Transition(p, "assembled", "video_assembled", "frame")

\* Faulty variant: it waits until the scheduler lets it.
WaitForever(p, here, bound) ==
    /\ pc[p] = here
    /\ waits' = [waits EXCEPT ![p] = (@ + 1) % (bound + 1)]
    /\ UNCHANGED <<pc, job, library, video>>

\* The scheduler does not let the job run: five seconds more, and when that did not
\* help it runs all the same.
Wait(p, here, bound) ==
    /\ pc[p] = here
    /\ waits[p] < bound
    /\ waits' = [waits EXCEPT ![p] = @ + 1]
    /\ UNCHANGED <<pc, job, library, video>>

WaitForVoice(p) == Wait(p, "voice", TTS_WAITS)
WaitForVideo(p) == Wait(p, "prepare", VIDEO_WAITS)

\* generate_voiceover: Kokoro, or pyttsx3, or silence; one of them never fails.
GenerateVoiceover(p) ==
    /\ pc[p] = "voice"
    /\ Goto(p, "voiced")
    /\ waits' = [waits EXCEPT ![p] = 0]
    /\ UNCHANGED <<job, library, video>>

-----------------------------------------------------------------------------
(* The libraries.                                                           *)

After == [background |-> "broll", broll |-> "music", maintain |-> "idle"]

Onward(p) == Goto(p, After[pc[p]])

Loading(p, step) == load' = [load EXCEPT ![p] = step]

\* BackgroundManager.maintain_library and pre_download_starter_library.
MaintainLibrary(p) ==
    /\ pc[p] = "idle"
    /\ Goto(p, "maintain")
    /\ UNCHANGED <<waits, job, library, video>>

\* get_background: a video of the brand's own.
LocalBackground(p) ==
    /\ pc[p] = "background"
    /\ load[p] = "none"
    /\ Onward(p)
    /\ UNCHANGED <<waits, job, library, video>>

\* _check_broll_cache: the clip, when its row and its file are there and the row is
\* active; an exception when the table cannot be read.
CachedBackground(p) ==
    /\ pc[p] = "background"
    /\ load[p] = "none"
    /\ \/ row /\ clip # "absent" /\ Onward(p)
       \/ Goto(p, "failed")
    /\ UNCHANGED <<waits, job, library, video>>

\* generate_fallback_background: there is a path, whatever ffmpeg makes of it.
GenerateBackground(p) ==
    /\ pc[p] = "background"
    /\ load[p] = "none"
    /\ Onward(p)
    /\ UNCHANGED <<waits, job, library, video>>

\* fetch_broll: clips that are in the directory, whoever put them there and however
\* far they got, or a generated one.
FetchBroll(p) ==
    /\ pc[p] = "broll"
    /\ load[p] = "none"
    /\ Onward(p)
    /\ UNCHANGED <<waits, job, library, video>>

\* fetch_music: a track of the brand's directory, one that is downloaded into it, or
\* a generated one; whatever fails, there is a path.
FetchMusic(p) ==
    /\ pc[p] = "music"
    /\ Goto(p, "captions")
    /\ UNCHANGED <<waits, job, library, video>>

\* Faulty variant: what is in the directory gets its row.
FindFileAndRow(p) ==
    /\ load[p] = "none"
    /\ IF clip = "absent"
          THEN Loading(p, "open") /\ UNCHANGED <<pc, row>>
          ELSE Onward(p) /\ row' = TRUE /\ UNCHANGED load
    /\ UNCHANGED <<waits, job, clip, opener, doubled, video>>

\* A search found the clip: when its file exists it is returned, as it is; else the
\* download is asked for.
FindFile(p) ==
    /\ load[p] = "none"
    /\ IF clip = "absent"
          THEN Loading(p, "open") /\ UNCHANGED pc
          ELSE Onward(p) /\ UNCHANGED load
    /\ UNCHANGED <<waits, job, clip, opener, row, doubled, video>>

FetchPexels(p) == pc[p] \in {"background", "maintain"} /\ FindFile(p)

FetchPixabay(p) == pc[p] = "background" /\ FindFile(p)

\* BrollFetcher asks the same two, and downloads into the same directory.
BrollFromPexels(p) == pc[p] = "broll" /\ FindFile(p)

BrollFromPixabay(p) == pc[p] = "broll" /\ FindFile(p)

\* The answer is there, and the file is opened for writing, which empties it.
OpenFile(p) ==
    /\ load[p] = "open"
    /\ Loading(p, "write")
    /\ clip' = "partial"
    /\ opener' = p
    /\ doubled' = (doubled \/ clip # "absent")
    /\ UNCHANGED <<pc, waits, job, row, video>>

Closed(p) == opener' = IF opener = p THEN "none" ELSE opener

\* The last chunk.  Two that write the same bytes complete the file when the last
\* of them to empty it has.
WriteFile(p) ==
    /\ load[p] = "write"
    /\ clip' = IF opener = p THEN "whole" ELSE clip
    /\ Closed(p)
    /\ IF pc[p] \in {"background", "maintain"}
          THEN Loading(p, "row") /\ UNCHANGED pc
          ELSE Loading(p, "none") /\ Onward(p)
    /\ UNCHANGED <<waits, job, row, doubled, video>>

\* Only BackgroundManager's download makes a row.
InsertRow(p) ==
    /\ load[p] = "row"
    /\ row' = TRUE
    /\ Loading(p, "none")
    /\ Onward(p)
    /\ UNCHANGED <<waits, job, clip, opener, doubled, video>>

\* No answer, a connection lost in the middle, no database: the caller does without,
\* and what was written stays.
FailDownload(p) ==
    /\ load[p] # "none"
    /\ Loading(p, "none")
    /\ Onward(p)
    /\ Closed(p)
    /\ UNCHANGED <<waits, job, clip, row, doubled, video>>

-----------------------------------------------------------------------------
(* The video.                                                               *)

Write(p, part) == shared' = [shared EXCEPT ![part] = p]

Take(p, part, what) == taken' = [taken EXCEPT ![p][part] = what]

\* generate_subtitles writes three files under names of the brand.
GenerateSubtitles(p) ==
    /\ pc[p] = "captions"
    /\ \/ Write(p, "captions") /\ Goto(p, "assembly")
       \/ Goto(p, "failed") /\ UNCHANGED shared
    /\ UNCHANGED <<waits, job, library, taken, overlapped>>

\* What a part of a video is made of: its shared file, which was written just
\* before, or, when that failed, the file it would have been made of.  A failed
\* ffmpeg may have spoilt the shared file.
Make(p, part) ==
    \/ Write(p, part) /\ Take(p, part, "shared")
    \/ /\ shared' \in {shared, [shared EXCEPT ![part] = "old"]}
       /\ Take(p, part, "own")

\* Faulty variant: the path of the shared file is returned whether it was made.
PrepareBackgroundAnyway(p) ==
    /\ pc[p] = "prepare"
    /\ shared' \in {shared, [shared EXCEPT !["background"] = p]}
    /\ Take(p, "background", "shared")
    /\ Goto(p, "mix")
    /\ waits' = [waits EXCEPT ![p] = 0]
    /\ UNCHANGED <<job, library, overlapped>>

PrepareBackground(p) ==
    /\ pc[p] = "prepare"
    /\ Make(p, "background")
    /\ Goto(p, "mix")
    /\ waits' = [waits EXCEPT ![p] = 0]
    /\ UNCHANGED <<job, library, overlapped>>

\* Without music the voiceover is the audio.
MixAudio(p) ==
    /\ pc[p] = "mix"
    /\ \/ Make(p, "audio")
       \/ Take(p, "audio", "own") /\ UNCHANGED shared
    /\ Goto(p, "compose")
    /\ UNCHANGED <<waits, job, library, overlapped>>

\* Whose a shared file is when it is read.
Found(p, part) == IF shared[part] = p THEN "own" ELSE "other"

Read(p, part) == IF taken[p][part] = "shared" THEN Found(p, part) ELSE "own"

Composed(p) ==
    taken' = [taken EXCEPT ![p]["captions"] = Found(p, "captions"),
                           ![p]["background"] = Read(p, "background"),
                           ![p]["audio"] = Read(p, "audio")]

\* Faulty variant: assemble_video's answer is not looked at.
ComposeFinalAnyway(p) ==
    /\ pc[p] = "compose"
    /\ Goto(p, "assembled")
    /\ Composed(p) \/ UNCHANGED taken
    /\ UNCHANGED <<waits, job, library, shared, overlapped>>

\* The captions are burnt in, the audio is put to the background; ffmpeg may fail.
ComposeFinal(p) ==
    /\ pc[p] = "compose"
    /\ \/ Composed(p) /\ Goto(p, "assembled")
       \/ UNCHANGED taken /\ Goto(p, "failed")
    /\ UNCHANGED <<waits, job, library, shared, overlapped>>

\* The key frame, or one colour in its place.  When ffmpeg makes neither, the file
\* is touched (thumbnail_maker.py:332-336): the frame it has is kept.
ExtractKeyFrame(p) ==
    /\ pc[p] = "frame"
    /\ \/ Write(p, "frame") /\ UNCHANGED taken
       \/ /\ shared' \in {shared, [shared EXCEPT !["frame"] = "old"]}
          /\ Take(p, "frame", "kept")
    /\ Goto(p, "style")
    /\ UNCHANGED <<waits, job, library, overlapped>>

\* The thumbnail is made of the frame, or is a copy of it.
GenerateThumbnail(p) ==
    /\ pc[p] = "style"
    /\ \/ /\ IF taken[p]["frame"] = "kept" THEN UNCHANGED taken
                                           ELSE Take(p, "frame", Found(p, "frame"))
          /\ Goto(p, "variants")
       \/ UNCHANGED taken /\ Goto(p, "failed")
    /\ UNCHANGED <<waits, job, library, shared, overlapped>>

\* optimize_for_platform: the video as it is when ffmpeg fails.
OptimizeForPlatform(p) ==
    /\ pc[p] = "variants"
    /\ Goto(p, "caption")
    /\ UNCHANGED <<waits, job, library, video>>

\* generate_platform_caption: a sentence of the script when no model answers.
\* One platform stands for the list of them.
GeneratePlatformCaption(p) ==
    /\ pc[p] = "caption"
    /\ Goto(p, "done")
    /\ UNCHANGED <<waits, job, library, video>>

\* What it leaves in the shared files is nobody's now.
Rest(p) ==
    /\ Goto(p, "idle")
    /\ waits' = [waits EXCEPT ![p] = 0]
    /\ job' = [job EXCEPT ![p] = "none"]
    /\ Loading(p, "none")
    /\ taken' = [taken EXCEPT ![p] = Nothing]
    /\ overlapped' = [overlapped EXCEPT ![p] = FALSE]
    /\ shared' = [part \in Parts |-> IF shared[part] = p THEN "old" ELSE shared[part]]
    /\ Closed(p)
    /\ UNCHANGED <<clip, row, doubled>>

\* The caller has the ForgeResult.
Return(p) == pc[p] \in {"done", "failed"} /\ Rest(p)

\* The process dies; what it had written stays.
Crash(p) == pc[p] # "idle" /\ Rest(p)

Voice(p) == MarkQueued(p) \/ WaitForVoice(p) \/ GenerateVoiceover(p) \/ MarkVoiced(p)

Footage(p) ==
    \/ LocalBackground(p) \/ CachedBackground(p) \/ GenerateBackground(p)
    \/ FetchBroll(p) \/ FetchMusic(p)
    \/ FetchPexels(p) \/ FetchPixabay(p) \/ BrollFromPexels(p) \/ BrollFromPixabay(p)
    \/ OpenFile(p) \/ WriteFile(p) \/ InsertRow(p) \/ FailDownload(p)

Assembly(p) ==
    \/ GenerateSubtitles(p) \/ MarkAssembly(p) \/ WaitForVideo(p) \/ PrepareBackground(p)
    \/ MixAudio(p) \/ ComposeFinal(p) \/ MarkAssembled(p)
    \/ ExtractKeyFrame(p) \/ GenerateThumbnail(p)
    \/ OptimizeForPlatform(p) \/ GeneratePlatformCaption(p)

Step(p) == Voice(p) \/ Footage(p) \/ Assembly(p) \/ Return(p)

Next == \E p \in Procs : ForgeVideo(p) \/ MaintainLibrary(p) \/ Step(p) \/ Crash(p)

Spec == Init /\ [][Next]_vars /\ \A p \in Procs : WF_vars(Step(p))

-----------------------------------------------------------------------------
\* A video that was finished while no other forge of its brand was at work has its
\* own captions, its own background, its own audio and its own thumbnail, whatever
\* earlier forges left in the files they share; only its thumbnail, where ffmpeg
\* could make no frame at all, may be of the frame that an earlier one left.
OwnUnlessOverlapped ==
    \A p \in Procs : pc[p] = "done" /\ ~overlapped[p] =>
        \A part \in Parts :
            taken[p][part] = "own" \/ (part = "frame" /\ taken[p][part] = "kept")

\* What background_library lists has a complete file, unless one download emptied
\* the file of another.
RowIsWhole == row => clip = "whole" \/ doubled

\* A job that is marked as assembled has a video; one whose assembly failed stays
\* where it was, for the clean-up of the jobs to find.
AssembledHasVideo ==
    \A p \in Procs :
        /\ job[p] = "video_assembled" => taken[p]["captions"] # "none"
        /\ pc[p] = "failed" => job[p] \in Orphanable

\* A forge ends, whatever the scheduler says of it: it waits so many times and then
\* goes on.
ForgeEnds == \A p \in Procs : pc[p] # "idle" ~> pc[p] = "idle"
=============================================================================
