-------------------------- MODULE ContentForgeProofs --------------------------
(***************************************************************************)
(* Theorems about ContentForge, for any set of processes and any number of  *)
(* waits.  The inductive invariant says what a forge has come to by where   *)
(* its process is: the state of its job, what is in the clip's file while   *)
(* it is downloaded, and whose the shared files are that its video is made  *)
(* of.                                                                      *)
(***************************************************************************)
EXTENDS ContentForge, TLAPS

Places ==
    {"idle", "maintain", "queued", "voice", "voiced", "background", "broll", "music", "captions",
     "assembly", "prepare", "mix", "compose", "assembled", "frame", "style", "variants", "caption",
     "done", "failed"}

\* What is known of a part.
Takings == {"none", "own", "shared", "other", "kept"}

\* Where a forge has its video, and where it has its thumbnail.
WithVideo == {"assembled", "frame", "style", "variants", "caption", "done"}
WithThumbnail == {"variants", "caption", "done"}

ForgeTypes ==
    /\ pc \in [Procs -> Places]
    /\ load \in [Procs -> {"none", "open", "write", "row"}]
    /\ waits \in [Procs -> Nat]
    /\ job \in [Procs -> {"none", "script_safety_check", "tts_queued", "tts_done", "video_assembly",
                          "video_assembled"}]
    /\ shared \in [Parts -> Procs \cup {"old"}]
    /\ taken \in [Procs -> [Parts -> Takings]]
    /\ clip \in {"absent", "partial", "whole"}
    /\ opener \in Procs \cup {"none"}
    /\ row \in BOOLEAN
    /\ doubled \in BOOLEAN
    /\ overlapped \in [Procs -> BOOLEAN]

\* A job is as far as its forge, and one with its video has its captions in it.
JobShape(p) ==
    /\ pc[p] \in {"queued", "voice", "voiced"} => job[p] \in {"script_safety_check", "tts_queued"}
    /\ pc[p] \in {"background", "broll", "music", "captions", "assembly"} => job[p] = "tts_done"
    /\ pc[p] \in {"prepare", "mix", "compose", "assembled"} => job[p] = "video_assembly"
    /\ pc[p] \in {"frame", "style", "variants", "caption", "done"} => job[p] = "video_assembled"
    /\ pc[p] = "failed" => job[p] # "none"
    /\ pc[p] \in {"idle", "maintain"} => job[p] = "none"
    /\ load[p] # "none" => pc[p] \in {"background", "broll", "maintain"}
    /\ pc[p] \in WithVideo \/ job[p] = "video_assembled" => taken[p]["captions"] # "none"

\* Who downloads has emptied the file last, or it was emptied twice.
ClipShape ==
    /\ row => clip = "whole" \/ doubled
    /\ \A p \in Procs :
          /\ load[p] = "row" => clip = "whole" \/ doubled
          /\ load[p] = "write" => clip # "absent" /\ (opener = p \/ doubled)

\* A part that a forge will find to be its own.
Secured(p, part) == taken[p][part] = "own" \/ (taken[p][part] = "shared" /\ shared[part] = p)

OwnShape(p) ==
    /\ pc[p] \in {"assembly", "prepare", "mix", "compose"} => shared["captions"] = p
    /\ pc[p] \in {"mix", "compose"} => Secured(p, "background")
    /\ pc[p] = "compose" => Secured(p, "audio")
    /\ pc[p] \in WithVideo =>
          /\ taken[p]["captions"] = "own"
          /\ taken[p]["background"] = "own"
          /\ taken[p]["audio"] = "own"
    /\ pc[p] = "style" => taken[p]["frame"] = "kept" \/ shared["frame"] = p
    /\ pc[p] \in WithThumbnail => taken[p]["frame"] \in {"own", "kept"}

\* Two forges at a time know of the overlap, and a forge without one has its own.
FilesShape ==
    /\ \A p, q \in Procs : Forging(p) /\ Forging(q) /\ p # q => overlapped[p]
    /\ \A p \in Procs : ~overlapped[p] => OwnShape(p)

ForgeInv ==
    /\ ForgeTypes
    /\ \A p \in Procs : JobShape(p)
    /\ ClipShape
    /\ FilesShape

LEMMA InitForge == Init => ForgeInv
  <1> SUFFICES ASSUME Init PROVE ForgeInv
    OBVIOUS
  <1>1. ForgeTypes
    BY DEF Init, ForgeTypes, Places, Takings, Nothing, Parts
  <1>2. ASSUME NEW p \in Procs PROVE JobShape(p) /\ OwnShape(p) /\ ~Forging(p) /\ load[p] = "none"
    BY DEF Init, JobShape, OwnShape, Forging, WithVideo, WithThumbnail
  <1> QED  BY <1>1, <1>2 DEF Init, ForgeInv, ClipShape, FilesShape

Move(p) == ForgeVideo(p) \/ MaintainLibrary(p) \/ Step(p) \/ Crash(p)

-----------------------------------------------------------------------------
(* The types, and what a step of one process leaves to the others.           *)

\* The waits, the transitions, and the steps that only go on.
Quiet(p) ==
    \/ MarkQueued(p) \/ MarkVoiced(p) \/ MarkAssembly(p) \/ MarkAssembled(p)
    \/ WaitForVoice(p) \/ WaitForVideo(p) \/ GenerateVoiceover(p)
    \/ MaintainLibrary(p) \/ LocalBackground(p) \/ CachedBackground(p) \/ GenerateBackground(p)
    \/ FetchBroll(p) \/ FetchMusic(p) \/ OptimizeForPlatform(p) \/ GeneratePlatformCaption(p)

Download(p) ==
    \/ FetchPexels(p) \/ FetchPixabay(p) \/ BrollFromPexels(p) \/ BrollFromPixabay(p)
    \/ OpenFile(p) \/ WriteFile(p) \/ InsertRow(p) \/ FailDownload(p)

Making(p) ==
    \/ GenerateSubtitles(p) \/ PrepareBackground(p) \/ MixAudio(p) \/ ComposeFinal(p)
    \/ ExtractKeyFrame(p) \/ GenerateThumbnail(p)

LEMMA Moves ==
  ASSUME NEW p, Move(p)
  PROVE  ForgeVideo(p) \/ Quiet(p) \/ Download(p) \/ Making(p) \/ Rest(p)
  BY DEF Move, Step, Voice, Footage, Assembly, Return, Crash, Quiet, Download, Making

\* The arrows of a quiet step, and what it leaves.
LEMMA QuietMoves ==
  ASSUME NEW p \in Procs, ForgeTypes, Quiet(p)
  PROVE  /\ UNCHANGED <<library, video>>
         /\ waits' \in [Procs -> Nat]
         /\ pc' \in [Procs -> Places]
         /\ \E there, s : pc' = [pc EXCEPT ![p] = there] /\ job' = [job EXCEPT ![p] = s]
         /\ \/ pc'[p] = "failed" /\ job'[p] = job[p] /\ pc[p] \notin {"idle", "maintain"}
            \/ pc'[p] = pc[p] /\ job'[p] = job[p]
            \/ <<pc[p], pc'[p]>> \in {<<"queued", "voice">>} /\ job'[p] = "tts_queued"
            \/ <<pc[p], pc'[p]>> \in {<<"voiced", "background">>} /\ job'[p] = "tts_done"
            \/ <<pc[p], pc'[p]>> \in {<<"assembly", "prepare">>} /\ job'[p] = "video_assembly"
            \/ <<pc[p], pc'[p]>> \in {<<"assembled", "frame">>} /\ job'[p] = "video_assembled"
            \/ /\ job'[p] = job[p]
               /\ <<pc[p], pc'[p]>> \in {<<"voice", "voiced">>, <<"idle", "maintain">>,
                    <<"background", "broll">>, <<"broll", "music">>, <<"music", "captions">>,
                    <<"variants", "caption">>, <<"caption", "done">>}
  <1>1. ASSUME NEW here, NEW s, NEW there \in Places, Transition(p, here, s, there)
        PROVE  /\ UNCHANGED <<library, video, waits>> /\ pc[p] = here
               /\ pc' \in [Procs -> Places]
               /\ \E l, t : pc' = [pc EXCEPT ![p] = l] /\ job' = [job EXCEPT ![p] = t]
               /\ \/ pc'[p] = "failed" /\ job'[p] = job[p]
                  \/ pc'[p] = there /\ job'[p] = s
    <2>1. CASE Fails(p)
      <3>1. job' = [job EXCEPT ![p] = job[p]]
        BY <2>1 DEF Fails, ForgeTypes
      <3> QED  BY <1>1, <2>1, <3>1 DEF Transition, Fails, Goto, ForgeTypes, Places
    <2>2. CASE Goto(p, there) /\ job' = [job EXCEPT ![p] = s]
      BY <1>1, <2>2 DEF Transition, Goto, ForgeTypes
    <2> QED  BY <1>1, <2>1, <2>2 DEF Transition
  <1>2. ASSUME NEW here, NEW bound, Wait(p, here, bound)
        PROVE  /\ UNCHANGED <<library, video, pc, job>> /\ waits' \in [Procs -> Nat]
               /\ pc' = [pc EXCEPT ![p] = pc[p]] /\ job' = [job EXCEPT ![p] = job[p]]
    BY <1>2 DEF Wait, ForgeTypes
  <1>3. job = [job EXCEPT ![p] = job[p]]
    BY DEF ForgeTypes
  <1>4. CASE MarkQueued(p) \/ MarkVoiced(p) \/ MarkAssembly(p) \/ MarkAssembled(p)
    <2>1. {"voice", "background", "prepare", "frame"} \subseteq Places
      BY DEF Places
    <2>2. CASE MarkQueued(p)
      BY <1>1, <2>1, <2>2 DEF MarkQueued, ForgeTypes
    <2>3. CASE MarkVoiced(p)
      BY <1>1, <2>1, <2>3 DEF MarkVoiced, ForgeTypes
    <2>4. CASE MarkAssembly(p)
      BY <1>1, <2>1, <2>4 DEF MarkAssembly, ForgeTypes
    <2>5. CASE MarkAssembled(p)
      BY <1>1, <2>1, <2>5 DEF MarkAssembled, ForgeTypes
    <2> QED  BY <1>4, <2>2, <2>3, <2>4, <2>5
  <1>5. CASE WaitForVoice(p) \/ WaitForVideo(p)
    <2>1. /\ UNCHANGED <<library, video, pc, job>> /\ waits' \in [Procs -> Nat]
          /\ pc' = [pc EXCEPT ![p] = pc[p]] /\ job' = [job EXCEPT ![p] = job[p]]
      BY <1>2, <1>5 DEF WaitForVoice, WaitForVideo
    <2> QED  BY <2>1 DEF ForgeTypes
  <1>6. CASE GenerateVoiceover(p) \/ MaintainLibrary(p) \/ FetchMusic(p) \/ OptimizeForPlatform(p)
             \/ GeneratePlatformCaption(p)
    <2>1. PICK l \in Places :
             /\ <<pc[p], l>> \in {<<"voice", "voiced">>, <<"idle", "maintain">>, <<"music", "captions">>,
                                  <<"variants", "caption">>, <<"caption", "done">>}
             /\ pc' = [pc EXCEPT ![p] = l] /\ UNCHANGED <<job, library, video>>
             /\ waits' = waits \/ waits' = [waits EXCEPT ![p] = 0]
      BY <1>6
      DEF GenerateVoiceover, MaintainLibrary, FetchMusic, OptimizeForPlatform, GeneratePlatformCaption,
          Goto, Places
    <2>2. waits' \in [Procs -> Nat] /\ pc' \in [Procs -> Places] /\ pc'[p] = l
      BY <2>1 DEF ForgeTypes
    <2> QED  BY <1>3, <2>1, <2>2
  <1>7. CASE LocalBackground(p) \/ CachedBackground(p) \/ GenerateBackground(p) \/ FetchBroll(p)
    <2>1. /\ pc[p] \in {"background", "broll"} /\ UNCHANGED <<waits, job, library, video>>
          /\ Onward(p) \/ Goto(p, "failed")
      BY <1>7 DEF LocalBackground, CachedBackground, GenerateBackground, FetchBroll
    <2>2. PICK l \in {"broll", "music", "failed"} :
             Goto(p, l) /\ (l = "failed" \/ <<pc[p], l>> \in {<<"background", "broll">>, <<"broll", "music">>})
      BY <2>1 DEF Onward, After
    <2>3. pc' \in [Procs -> Places] /\ pc'[p] = l /\ pc' = [pc EXCEPT ![p] = l]
      BY <2>2 DEF Goto, ForgeTypes, Places
    <2> QED  BY <1>3, <2>1, <2>2, <2>3 DEF ForgeTypes
  <1> QED  BY <1>4, <1>5, <1>6, <1>7 DEF Quiet

\* A download leaves the forge where it is or takes it one step on.
LEMMA DownloadMoves ==
  ASSUME NEW p \in Procs, ForgeTypes, JobShape(p), Download(p)
  PROVE  /\ UNCHANGED <<waits, job, video>>
         /\ pc' \in [Procs -> Places] /\ pc' = [pc EXCEPT ![p] = pc'[p]]
         /\ load' \in [Procs -> {"none", "open", "write", "row"}] /\ load' = [load EXCEPT ![p] = load'[p]]
         /\ clip' \in {"absent", "partial", "whole"} /\ opener' \in Procs \cup {"none"}
         /\ row' \in BOOLEAN /\ doubled' \in BOOLEAN
         /\ pc[p] \in {"background", "broll", "maintain"}
         /\ \/ pc'[p] = pc[p]
            \/ load'[p] = "none" /\ pc[p] = "background" /\ pc'[p] = "broll"
            \/ load'[p] = "none" /\ pc[p] = "broll" /\ pc'[p] = "music"
            \/ load'[p] = "none" /\ pc[p] = "maintain" /\ pc'[p] = "idle"
  <1>1. pc = [pc EXCEPT ![p] = pc[p]] /\ load = [load EXCEPT ![p] = load[p]]
    BY DEF ForgeTypes
  <1>2. pc[p] \in {"background", "broll", "maintain"}
    BY DEF Download, FetchPexels, FetchPixabay, BrollFromPexels, BrollFromPixabay, OpenFile, WriteFile,
           InsertRow, FailDownload, JobShape
  <1>3. ASSUME Onward(p)
        PROVE  /\ pc' \in [Procs -> Places] /\ pc' = [pc EXCEPT ![p] = pc'[p]]
               /\ \/ pc[p] = "background" /\ pc'[p] = "broll"
                  \/ pc[p] = "broll" /\ pc'[p] = "music"
                  \/ pc[p] = "maintain" /\ pc'[p] = "idle"
    BY <1>2, <1>3 DEF Onward, After, Goto, ForgeTypes, Places
  <1>4. CASE FetchPexels(p) \/ FetchPixabay(p) \/ BrollFromPexels(p) \/ BrollFromPixabay(p)
    <2>1. FindFile(p)
      BY <1>4 DEF FetchPexels, FetchPixabay, BrollFromPexels, BrollFromPixabay
    <2>2. CASE clip = "absent"
      BY <1>1, <1>2, <2>1, <2>2 DEF FindFile, Loading, ForgeTypes
    <2>3. CASE clip # "absent"
      BY <1>1, <1>2, <1>3, <2>1, <2>3 DEF FindFile, ForgeTypes
    <2> QED  BY <2>2, <2>3
  <1>5. CASE OpenFile(p)
    BY <1>1, <1>2, <1>5 DEF OpenFile, Loading, ForgeTypes
  <1>6. CASE WriteFile(p)
    <2>1. opener' \in Procs \cup {"none"} /\ clip' \in {"absent", "partial", "whole"}
      BY <1>6 DEF WriteFile, Closed, ForgeTypes
    <2>2. CASE pc[p] \in {"background", "maintain"}
      BY <1>1, <1>2, <1>6, <2>1, <2>2 DEF WriteFile, Loading, ForgeTypes
    <2>3. CASE pc[p] \notin {"background", "maintain"}
      BY <1>1, <1>2, <1>3, <1>6, <2>1, <2>3 DEF WriteFile, Loading, ForgeTypes
    <2> QED  BY <2>2, <2>3
  <1>7. CASE InsertRow(p)
    BY <1>1, <1>2, <1>3, <1>7 DEF InsertRow, Loading, ForgeTypes
  <1>8. CASE FailDownload(p)
    <2>1. opener' \in Procs \cup {"none"}
      BY <1>8 DEF FailDownload, Closed, ForgeTypes
    <2> QED  BY <1>1, <1>2, <1>3, <1>8, <2>1 DEF FailDownload, Loading, ForgeTypes
  <1> QED  BY <1>4, <1>5, <1>6, <1>7, <1>8 DEF Download

\* A part is made, or does without: nothing else changes of the files and of the video.
LEMMA Made ==
  ASSUME NEW p \in Procs, NEW part \in Parts, ForgeTypes, Make(p, part)
  PROVE  /\ shared' \in [Parts -> Procs \cup {"old"}]
         /\ taken' \in [Procs -> [Parts -> Takings]]
         /\ taken' = [taken EXCEPT ![p] = taken'[p]]
         /\ \A other \in Parts \ {part} : shared'[other] = shared[other] /\ taken'[p][other] = taken[p][other]
         /\ Secured(p, part)'
  <1>1. CASE Write(p, part) /\ Take(p, part, "shared")
    BY <1>1 DEF Write, Take, ForgeTypes, Takings, Secured
  <1>2. CASE shared' \in {shared, [shared EXCEPT ![part] = "old"]} /\ Take(p, part, "own")
    BY <1>2 DEF Take, ForgeTypes, Takings, Secured
  <1> QED  BY <1>1, <1>2 DEF Make

\* The steps that make the video: what they do to the place, the files and the parts.
LEMMA MakingMoves ==
  ASSUME NEW p \in Procs, ForgeTypes, Making(p)
  PROVE  /\ UNCHANGED <<job, library, overlapped>> /\ waits' \in [Procs -> Nat]
         /\ pc' \in [Procs -> Places] /\ pc' = [pc EXCEPT ![p] = pc'[p]]
         /\ shared' \in [Parts -> Procs \cup {"old"}]
         /\ taken' \in [Procs -> [Parts -> Takings]]
         /\ taken' = [taken EXCEPT ![p] = taken'[p]]
         /\ \/ /\ pc[p] = "captions" /\ pc'[p] = "assembly" /\ taken' = taken
               /\ shared'["captions"] = p
            \/ /\ pc[p] \in {"captions", "compose", "style"} /\ pc'[p] = "failed" /\ UNCHANGED <<taken, shared>>
            \/ /\ pc[p] = "prepare" /\ pc'[p] = "mix"
               /\ shared'["captions"] = shared["captions"] /\ Secured(p, "background")'
            \/ /\ pc[p] = "mix" /\ pc'[p] = "compose"
               /\ shared'["captions"] = shared["captions"] /\ Secured(p, "audio")'
               /\ Secured(p, "background") => Secured(p, "background")'
            \/ /\ pc[p] = "compose" /\ pc'[p] = "assembled"
               /\ taken'[p]["captions"] = Found(p, "captions")
               /\ taken'[p]["background"] = Read(p, "background")
               /\ taken'[p]["audio"] = Read(p, "audio")
            \/ /\ pc[p] = "frame" /\ pc'[p] = "style"
               /\ taken'[p]["frame"] = "kept" \/ shared'["frame"] = p
               /\ \A other \in Parts \ {"frame"} : taken'[p][other] = taken[p][other]
            \/ /\ pc[p] = "style" /\ pc'[p] = "variants"
               /\ taken[p]["frame"] = "kept" => taken'[p]["frame"] = "kept"
               /\ taken[p]["frame"] # "kept" => taken'[p]["frame"] = Found(p, "frame")
               /\ \A other \in Parts \ {"frame"} : taken'[p][other] = taken[p][other]
  <1>p. {"captions", "background", "audio", "frame"} = Parts
    BY DEF Parts
  <1>k. taken = [taken EXCEPT ![p] = taken[p]]
    BY DEF ForgeTypes
  <1>1. CASE GenerateSubtitles(p)
    <2>1. /\ pc' \in [Procs -> Places] /\ pc' = [pc EXCEPT ![p] = pc'[p]]
          /\ UNCHANGED <<waits, job, library, taken, overlapped>> /\ pc[p] = "captions"
      BY <1>1 DEF GenerateSubtitles, Goto, ForgeTypes, Places
    <2>2. CASE Write(p, "captions") /\ Goto(p, "assembly")
      <3>1. /\ shared' \in [Parts -> Procs \cup {"old"}] /\ shared'["captions"] = p
            /\ pc'[p] = "assembly"
        BY <1>p, <2>2 DEF Write, Goto, ForgeTypes
      <3> QED  BY <1>k, <2>1, <3>1 DEF ForgeTypes
    <2>3. CASE UNCHANGED shared /\ Goto(p, "failed")
      <3>1. pc'[p] = "failed"
        BY <2>3 DEF Goto, ForgeTypes
      <3> QED  BY <1>k, <2>1, <2>3, <3>1 DEF ForgeTypes
    <2> QED  BY <1>1, <2>2, <2>3 DEF GenerateSubtitles
  <1>2. CASE PrepareBackground(p)
    <2>1. Make(p, "background") /\ pc[p] = "prepare"
      BY <1>2 DEF PrepareBackground
    <2>2. /\ pc' \in [Procs -> Places] /\ pc' = [pc EXCEPT ![p] = pc'[p]] /\ pc'[p] = "mix"
          /\ waits' \in [Procs -> Nat] /\ UNCHANGED <<job, library, overlapped>>
      BY <1>2 DEF PrepareBackground, Goto, ForgeTypes, Places
    <2> QED  BY <1>p, <2>1, <2>2, Made
  <1>3. CASE MixAudio(p)
    <2>1. /\ pc' \in [Procs -> Places] /\ pc' = [pc EXCEPT ![p] = pc'[p]] /\ pc'[p] = "compose"
          /\ UNCHANGED <<waits, job, library, overlapped>> /\ pc[p] = "mix"
      BY <1>3 DEF MixAudio, Goto, ForgeTypes, Places
    <2>2. CASE Make(p, "audio")
      <3>1. /\ shared' \in [Parts -> Procs \cup {"old"}]
            /\ taken' \in [Procs -> [Parts -> Takings]]
            /\ taken' = [taken EXCEPT ![p] = taken'[p]]
            /\ \A other \in Parts \ {"audio"} :
                  shared'[other] = shared[other] /\ taken'[p][other] = taken[p][other]
            /\ Secured(p, "audio")'
        BY <1>p, <2>2, Made
      <3>2. Secured(p, "background") => Secured(p, "background")'
        BY <1>p, <3>1 DEF Secured
      <3>3. shared'["captions"] = shared["captions"]
        BY <1>p, <3>1
      <3> QED  BY <2>1, <3>1, <3>2, <3>3 DEF ForgeTypes
    <2>3. CASE Take(p, "audio", "own") /\ UNCHANGED shared
      BY <1>p, <2>1, <2>3 DEF Take, Secured, ForgeTypes, Takings
    <2> QED  BY <1>3, <2>2, <2>3 DEF MixAudio
  <1>4. CASE ComposeFinal(p)
    <2>1. /\ pc' \in [Procs -> Places] /\ pc' = [pc EXCEPT ![p] = pc'[p]]
          /\ UNCHANGED <<waits, job, library, shared, overlapped>> /\ pc[p] = "compose"
      BY <1>4 DEF ComposeFinal, Goto, ForgeTypes, Places
    <2>2. CASE Composed(p) /\ Goto(p, "assembled")
      <3>1. PICK c, b, a : /\ c = Found(p, "captions") /\ b = Read(p, "background") /\ a = Read(p, "audio")
                           /\ {c, b, a} \subseteq {"own", "other"}
        BY DEF Found, Read
      <3>2. taken' = [taken EXCEPT ![p]["captions"] = c, ![p]["background"] = b, ![p]["audio"] = a]
        BY <2>2, <3>1 DEF Composed
      <3>3. pc'[p] = "assembled"
        BY <2>2 DEF Goto, ForgeTypes
      <3>4. /\ taken' \in [Procs -> [Parts -> Takings]]
            /\ taken' = [taken EXCEPT ![p] = taken'[p]]
            /\ taken'[p]["captions"] = c /\ taken'[p]["background"] = b /\ taken'[p]["audio"] = a
        <4> DEFINE row_p == [taken[p] EXCEPT !["captions"] = c, !["background"] = b, !["audio"] = a]
        <4>1. taken \in [Procs -> [Parts -> Takings]]
          BY DEF ForgeTypes
        <4>2. taken[p] \in [Parts -> Takings]
          BY <4>1
        <4>3. /\ row_p \in [Parts -> Takings]
              /\ row_p["captions"] = c /\ row_p["background"] = b /\ row_p["audio"] = a
          BY <1>p, <3>1, <4>2 DEF Takings
        <4>4. taken' = [taken EXCEPT ![p] = row_p]
          BY <3>2, <4>1
        <4> HIDE DEF row_p
        <4> QED  BY <4>1, <4>3, <4>4
      <3> QED  BY <2>1, <3>1, <3>3, <3>4 DEF ForgeTypes
    <2>3. CASE UNCHANGED taken /\ Goto(p, "failed")
      BY <1>k, <2>1, <2>3 DEF Goto, ForgeTypes
    <2> QED  BY <1>4, <2>2, <2>3 DEF ComposeFinal
  <1>5. CASE ExtractKeyFrame(p)
    <2>1. /\ pc' \in [Procs -> Places] /\ pc' = [pc EXCEPT ![p] = pc'[p]]
          /\ UNCHANGED <<waits, job, library, overlapped>> /\ pc[p] = "frame" /\ pc'[p] = "style"
      BY <1>5 DEF ExtractKeyFrame, Goto, ForgeTypes, Places
    <2>2. CASE Write(p, "frame") /\ UNCHANGED taken
      <3>1. shared' \in [Parts -> Procs \cup {"old"}] /\ shared'["frame"] = p
        BY <1>p, <2>2 DEF Write, ForgeTypes
      <3> QED  BY <1>k, <2>1, <2>2, <3>1 DEF ForgeTypes
    <2>3. CASE /\ shared' \in {shared, [shared EXCEPT !["frame"] = "old"]}
               /\ Take(p, "frame", "kept")
      <3>1. shared' \in [Parts -> Procs \cup {"old"}]
        BY <2>3 DEF ForgeTypes
      <3>2. taken' = [taken EXCEPT ![p]["frame"] = "kept"]
        BY <2>3 DEF Take
      <3>3. /\ taken' \in [Procs -> [Parts -> Takings]] /\ taken' = [taken EXCEPT ![p] = taken'[p]]
            /\ taken'[p]["frame"] = "kept"
            /\ \A other \in Parts \ {"frame"} : taken'[p][other] = taken[p][other]
        BY <1>p, <3>2 DEF ForgeTypes, Takings
      <3> QED  BY <2>1, <3>1, <3>3 DEF ForgeTypes
    <2> QED  BY <1>5, <2>2, <2>3 DEF ExtractKeyFrame
  <1>6. CASE GenerateThumbnail(p)
    <2>1. /\ pc' \in [Procs -> Places] /\ pc' = [pc EXCEPT ![p] = pc'[p]]
          /\ UNCHANGED <<waits, job, library, shared, overlapped>> /\ pc[p] = "style"
      BY <1>6 DEF GenerateThumbnail, Goto, ForgeTypes, Places
    <2>2. CASE taken[p]["frame"] # "kept" /\ Take(p, "frame", Found(p, "frame")) /\ Goto(p, "variants")
      <3>1. PICK f \in {"own", "other"} : f = Found(p, "frame")
        BY DEF Found
      <3>2. taken' = [taken EXCEPT ![p]["frame"] = f] /\ pc'[p] = "variants"
        BY <2>2, <3>1 DEF Take, Goto, ForgeTypes
      <3>3. /\ taken' \in [Procs -> [Parts -> Takings]] /\ taken' = [taken EXCEPT ![p] = taken'[p]]
            /\ taken'[p]["frame"] = f
            /\ \A other \in Parts \ {"frame"} : taken'[p][other] = taken[p][other]
        BY <1>p, <3>1, <3>2 DEF ForgeTypes, Takings
      <3> QED  BY <2>1, <2>2, <3>1, <3>2, <3>3 DEF ForgeTypes
    <2>3. CASE UNCHANGED taken /\ Goto(p, "failed")
      BY <1>k, <2>1, <2>3 DEF Goto, ForgeTypes
    <2>4. CASE taken[p]["frame"] = "kept" /\ UNCHANGED taken /\ Goto(p, "variants")
      <3>1. pc'[p] = "variants"
        BY <2>4 DEF Goto, ForgeTypes
      <3> QED  BY <1>k, <2>1, <2>4, <3>1 DEF ForgeTypes
    <2> QED  BY <1>6, <2>2, <2>3, <2>4 DEF GenerateThumbnail
  <1> QED  BY <1>1, <1>2, <1>3, <1>4, <1>5, <1>6 DEF Making

JobNames ==
    {"none", "script_safety_check", "tts_queued", "tts_done", "video_assembly", "video_assembled"}

\* A forge begins: the others know of it, and it knows of them.
LEMMA ForgeVideoMoves ==
  ASSUME NEW p \in Procs, ForgeTypes, ForgeVideo(p)
  PROVE  /\ UNCHANGED <<waits, library, shared, taken>>
         /\ pc' \in [Procs -> Places] /\ pc' = [pc EXCEPT ![p] = "queued"] /\ pc[p] = "idle"
         /\ job' \in [Procs -> JobNames] /\ job' = [job EXCEPT ![p] = job'[p]]
         /\ job'[p] \in {"script_safety_check", "tts_queued"}
         /\ overlapped' \in [Procs -> BOOLEAN]
         /\ (\E r \in Procs \ {p} : Forging(r)) => overlapped'[p]
         /\ \A q \in Procs \ {p} : overlapped[q] \/ Forging(q) => overlapped'[q]
  <1>1. /\ UNCHANGED <<waits, library, shared, taken>>
        /\ pc' \in [Procs -> Places] /\ pc' = [pc EXCEPT ![p] = "queued"] /\ pc[p] = "idle"
        /\ job' \in [Procs -> JobNames] /\ job' = [job EXCEPT ![p] = job'[p]]
        /\ job'[p] \in {"script_safety_check", "tts_queued"}
    BY DEF ForgeVideo, Goto, ForgeTypes, Places, JobNames
  <1>2. (\E r \in Procs \ {p} : Forging(r)) \in BOOLEAN
    OBVIOUS
  <1>3. \A q \in Procs : Forging(q) \in BOOLEAN
    BY DEF Forging
  <1>4. overlapped' = [q \in Procs |->
          IF q = p THEN \E r \in Procs \ {p} : Forging(r) ELSE overlapped[q] \/ Forging(q)]
    BY DEF ForgeVideo
  <1>5. overlapped \in [Procs -> BOOLEAN]
    BY DEF ForgeTypes
  <1>6. overlapped' \in [Procs -> BOOLEAN]
    BY <1>2, <1>3, <1>4, <1>5
  <1>7. /\ (\E r \in Procs \ {p} : Forging(r)) => overlapped'[p]
        /\ \A q \in Procs \ {p} : overlapped[q] \/ Forging(q) => overlapped'[q]
    BY <1>4
  <1> QED  BY <1>1, <1>6, <1>7

\* A forge is over, in whatever way: the others keep what they have.
LEMMA RestMoves ==
  ASSUME NEW p \in Procs, ForgeTypes, Rest(p)
  PROVE  /\ UNCHANGED <<clip, row, doubled>>
         /\ pc' \in [Procs -> Places] /\ pc' = [pc EXCEPT ![p] = "idle"]
         /\ waits' \in [Procs -> Nat]
         /\ job' \in [Procs -> JobNames] /\ job' = [job EXCEPT ![p] = "none"]
         /\ load' \in [Procs -> {"none", "open", "write", "row"}] /\ load' = [load EXCEPT ![p] = "none"]
         /\ taken' \in [Procs -> [Parts -> Takings]]
         /\ taken' = [taken EXCEPT ![p] = Nothing]
         /\ overlapped' \in [Procs -> BOOLEAN] /\ overlapped' = [overlapped EXCEPT ![p] = FALSE]
         /\ shared' \in [Parts -> Procs \cup {"old"}]
         /\ \A part \in Parts : shared[part] # p => shared'[part] = shared[part]
         /\ opener' \in Procs \cup {"none"} /\ (opener # p => opener' = opener)
  <1>1. /\ pc' = [pc EXCEPT ![p] = "idle"] /\ waits' = [waits EXCEPT ![p] = 0]
        /\ job' = [job EXCEPT ![p] = "none"] /\ load' = [load EXCEPT ![p] = "none"]
        /\ taken' = [taken EXCEPT ![p] = Nothing] /\ overlapped' = [overlapped EXCEPT ![p] = FALSE]
        /\ shared' = [part \in Parts |-> IF shared[part] = p THEN "old" ELSE shared[part]]
        /\ opener' = IF opener = p THEN "none" ELSE opener
        /\ UNCHANGED <<clip, row, doubled>>
    BY DEF Rest, Goto, Loading, Closed
  <1>2. Nothing \in [Parts -> Takings]
    BY DEF Nothing, Takings
  <1>3. taken' \in [Procs -> [Parts -> Takings]]
    BY <1>1, <1>2 DEF ForgeTypes
  <1>4. /\ pc' \in [Procs -> Places] /\ waits' \in [Procs -> Nat] /\ job' \in [Procs -> JobNames]
        /\ load' \in [Procs -> {"none", "open", "write", "row"}]
    BY <1>1 DEF ForgeTypes, Places, JobNames
  <1>5. /\ overlapped' \in [Procs -> BOOLEAN]
        /\ shared' \in [Parts -> Procs \cup {"old"}]
        /\ opener' \in Procs \cup {"none"}
    BY <1>1 DEF ForgeTypes
  <1> QED  BY <1>1, <1>3, <1>4, <1>5 DEF ForgeTypes

LEMMA ForgeTypesKept ==
  ASSUME NEW p \in Procs, ForgeTypes, JobShape(p), Move(p)
  PROVE  ForgeTypes'
  <1>1. CASE ForgeVideo(p)
    BY <1>1, ForgeVideoMoves DEF ForgeTypes, JobNames, library
  <1>2. CASE Quiet(p)
    <2>1. PICK there, s : pc' = [pc EXCEPT ![p] = there] /\ job' = [job EXCEPT ![p] = s]
      BY <1>2, QuietMoves
    <2>2. job'[p] = s /\ job[p] \in JobNames
      BY <2>1 DEF ForgeTypes, JobNames
    <2>3. s = job[p] \/ s \in {"tts_queued", "tts_done", "video_assembly", "video_assembled"}
      BY <1>2, <2>2, QuietMoves
    <2>4. job' \in [Procs -> JobNames]
      BY <2>1, <2>2, <2>3 DEF ForgeTypes, JobNames
    <2>5. /\ UNCHANGED <<library, video>> /\ waits' \in [Procs -> Nat] /\ pc' \in [Procs -> Places]
      BY <1>2, QuietMoves
    <2> QED  BY <2>4, <2>5 DEF ForgeTypes, JobNames, library, video
  <1>3. CASE Download(p)
    BY <1>3, DownloadMoves DEF ForgeTypes, video
  <1>4. CASE Making(p)
    BY <1>4, MakingMoves DEF ForgeTypes, library
  <1>5. CASE Rest(p)
    BY <1>5, RestMoves DEF ForgeTypes, JobNames
  <1> QED  BY <1>1, <1>2, <1>3, <1>4, <1>5, Moves

\* What the job's shape is made of is a process's own.
LEMMA JobShapeOfOthers ==
  ASSUME NEW p \in Procs, ForgeTypes, JobShape(p), Move(p), NEW q \in Procs \ {p}
  PROVE  pc'[q] = pc[q] /\ load'[q] = load[q] /\ job'[q] = job[q] /\ taken'[q] = taken[q]
  <1>1. CASE ForgeVideo(p)
    BY <1>1, ForgeVideoMoves DEF ForgeTypes, library
  <1>2. CASE Quiet(p)
    <2>1. PICK there, s : pc' = [pc EXCEPT ![p] = there] /\ job' = [job EXCEPT ![p] = s]
      BY <1>2, QuietMoves
    <2>2. UNCHANGED <<library, video>>
      BY <1>2, QuietMoves
    <2> QED  BY <2>1, <2>2 DEF ForgeTypes, library, video
  <1>3. CASE Download(p)
    BY <1>3, DownloadMoves DEF ForgeTypes, video
  <1>4. CASE Making(p)
    <2>1. UNCHANGED <<job, library>>
      BY <1>4, MakingMoves
    <2>2. pc' = [pc EXCEPT ![p] = pc'[p]] /\ taken' = [taken EXCEPT ![p] = taken'[p]]
      BY <1>4, MakingMoves
    <2> QED  BY <2>1, <2>2 DEF ForgeTypes, library
  <1>5. CASE Rest(p)
    BY <1>5, RestMoves DEF ForgeTypes
  <1> QED  BY <1>1, <1>2, <1>3, <1>4, <1>5, Moves

LEMMA JobShapeKept ==
  ASSUME NEW p \in Procs, ForgeTypes, \A q \in Procs : JobShape(q), Move(p)
  PROVE  \A q \in Procs : JobShape(q)'
  <1>1. ASSUME NEW q \in Procs \ {p} PROVE JobShape(q)'
    BY JobShapeOfOthers DEF JobShape
  <1>2. CASE ForgeVideo(p)
    <2>1. pc'[p] = "queued" /\ load' = load /\ taken' = taken
          /\ job'[p] \in {"script_safety_check", "tts_queued"} /\ pc[p] = "idle"
      BY <1>2, ForgeVideoMoves DEF ForgeTypes, library
    <2>2. JobShape(p)'
      BY <2>1 DEF JobShape, WithVideo
    <2> QED  BY <1>1, <2>2
  <1>3. CASE Quiet(p)
    <2>1. UNCHANGED <<load, taken>>
      BY <1>3, QuietMoves DEF library, video
    <2>2. load[p] = "none" \/ (pc'[p] = pc[p] /\ job'[p] = job[p])
      BY <1>3 DEF Quiet, JobShape, MarkQueued, MarkVoiced, MarkAssembly, MarkAssembled, Transition,
         WaitForVoice, WaitForVideo, Wait, GenerateVoiceover, MaintainLibrary, LocalBackground,
         CachedBackground, GenerateBackground, FetchBroll, FetchMusic, OptimizeForPlatform,
         GeneratePlatformCaption
    <2>3. \/ pc'[p] = "failed" /\ job'[p] = job[p] /\ pc[p] \notin {"idle", "maintain"}
          \/ pc'[p] = pc[p] /\ job'[p] = job[p]
          \/ <<pc[p], pc'[p]>> \in {<<"queued", "voice">>} /\ job'[p] = "tts_queued"
          \/ <<pc[p], pc'[p]>> \in {<<"voiced", "background">>} /\ job'[p] = "tts_done"
          \/ <<pc[p], pc'[p]>> \in {<<"assembly", "prepare">>} /\ job'[p] = "video_assembly"
          \/ <<pc[p], pc'[p]>> \in {<<"assembled", "frame">>} /\ job'[p] = "video_assembled"
          \/ /\ job'[p] = job[p]
             /\ <<pc[p], pc'[p]>> \in {<<"voice", "voiced">>, <<"idle", "maintain">>,
                  <<"background", "broll">>, <<"broll", "music">>, <<"music", "captions">>,
                  <<"variants", "caption">>, <<"caption", "done">>}
      BY <1>3, QuietMoves
    <2>4. JobShape(p)
      OBVIOUS
    <2>5. JobShape(p)'
      BY <2>1, <2>2, <2>3, <2>4 DEF JobShape, WithVideo, ForgeTypes, Places
    <2> QED  BY <1>1, <2>5
  <1>4. CASE Download(p)
    <2>1. JobShape(p)'
      BY <1>4, DownloadMoves DEF JobShape, WithVideo, video
    <2> QED  BY <1>1, <2>1
  <1>5. CASE Making(p)
    <2>1. UNCHANGED <<job, load>>
      BY <1>5, MakingMoves DEF library
    <2>2. Found(p, "captions") # "none"
      BY DEF Found
    <2>p. Parts = {"captions", "background", "audio", "frame"}
      BY DEF Parts
    <2>3. JobShape(p)'
      BY <1>5, <2>1, <2>2, <2>p, MakingMoves DEF JobShape, WithVideo
    <2> QED  BY <1>1, <2>3
  <1>6. CASE Rest(p)
    <2>1. pc'[p] = "idle" /\ job'[p] = "none" /\ load'[p] = "none"
      BY <1>6, RestMoves DEF ForgeTypes
    <2>2. JobShape(p)'
      BY <2>1 DEF JobShape, WithVideo
    <2> QED  BY <1>1, <2>2
  <1> QED  BY <1>2, <1>3, <1>4, <1>5, <1>6, Moves

-----------------------------------------------------------------------------
(* The clip's file.                                                          *)

LEMMA ClipShapeKept ==
  ASSUME NEW p \in Procs, ForgeTypes, JobShape(p), ClipShape, Move(p)
  PROVE  ClipShape'
  <1>1. CASE UNCHANGED <<load, clip, opener, row, doubled>>
    BY <1>1 DEF ClipShape
  <1>2. CASE FindFile(p)
    <2>1. UNCHANGED <<clip, opener, row, doubled>>
      BY <1>2 DEF FindFile
    <2>2. \A q \in Procs : load'[q] = load[q] \/ load'[q] = "open"
      BY <1>2 DEF FindFile, Loading, ForgeTypes
    <2> QED  BY <2>1, <2>2 DEF ClipShape
  <1>3. CASE OpenFile(p)
    <2>1. clip' = "partial" /\ opener' = p /\ doubled' = (doubled \/ clip # "absent") /\ row' = row
      BY <1>3 DEF OpenFile
    <2>2. \A q \in Procs : q # p => load'[q] = load[q]
      BY <1>3 DEF OpenFile, Loading, ForgeTypes
    <2>3. load'[p] = "write"
      BY <1>3 DEF OpenFile, Loading, ForgeTypes
    <2>4. row => doubled'
      BY <2>1 DEF ClipShape
    <2>5. ASSUME NEW q \in Procs, q # p, load[q] \in {"row", "write"} PROVE doubled'
      BY <2>1, <2>5 DEF ClipShape
    <2> QED  BY <2>1, <2>2, <2>3, <2>4, <2>5 DEF ClipShape
  <1>4. CASE WriteFile(p)
    <2>1. /\ clip' = IF opener = p THEN "whole" ELSE clip
          /\ opener' = IF opener = p THEN "none" ELSE opener
          /\ UNCHANGED <<row, doubled>> /\ load[p] = "write"
      BY <1>4 DEF WriteFile, Closed
    <2>2. \A q \in Procs : q # p => load'[q] = load[q]
      BY <1>4 DEF WriteFile, Loading, ForgeTypes
    <2>3. load'[p] \in {"row", "none"}
      BY <1>4 DEF WriteFile, Loading, ForgeTypes
    <2>4. clip' = "whole" \/ doubled
      BY <2>1 DEF ClipShape
    <2>5. ASSUME NEW q \in Procs, q # p, load[q] = "write"
          PROVE  clip' # "absent" /\ (opener' = q \/ doubled)
      BY <2>1, <2>5 DEF ClipShape
    <2> QED  BY <2>1, <2>2, <2>3, <2>4, <2>5 DEF ClipShape
  <1>5. CASE InsertRow(p)
    <2>1. UNCHANGED <<clip, opener, doubled>> /\ load[p] = "row"
      BY <1>5 DEF InsertRow
    <2>2. \A q \in Procs : load'[q] = load[q] \/ load'[q] = "none"
      BY <1>5 DEF InsertRow, Loading, ForgeTypes
    <2> QED  BY <2>1, <2>2 DEF ClipShape
  <1>6. CASE FailDownload(p) \/ Rest(p)
    <2>1. /\ UNCHANGED <<clip, row, doubled>>
          /\ opener' = IF opener = p THEN "none" ELSE opener
      BY <1>6 DEF FailDownload, Rest, Closed
    <2>2. \A q \in Procs : q # p => load'[q] = load[q]
      BY <1>6 DEF FailDownload, Rest, Loading, ForgeTypes
    <2>3. load'[p] = "none"
      BY <1>6 DEF FailDownload, Rest, Loading, ForgeTypes
    <2> QED  BY <2>1, <2>2, <2>3 DEF ClipShape
  <1>7. CASE ForgeVideo(p) \/ Quiet(p) \/ Making(p)
    <2>1. UNCHANGED library
      BY <1>7, ForgeVideoMoves, QuietMoves, MakingMoves
    <2> QED  BY <1>1, <2>1 DEF library
  <1> QED
    BY <1>2, <1>3, <1>4, <1>5, <1>6, <1>7, Moves
    DEF Download, FetchPexels, FetchPixabay, BrollFromPexels, BrollFromPixabay

-----------------------------------------------------------------------------
(* The files that the forges of a brand share.                               *)

\* Who forges after a step forged before it, unless the step begins the forge.
LEMMA OverlapKept ==
  ASSUME NEW p \in Procs, ForgeTypes, JobShape(p), Move(p),
         \A q, r \in Procs : Forging(q) /\ Forging(r) /\ q # r => overlapped[q]
  PROVE  \A q, r \in Procs : Forging(q)' /\ Forging(r)' /\ q # r => overlapped'[q]
  <1>1. \A q \in Procs \ {p} : Forging(q)' <=> Forging(q)
    BY JobShapeOfOthers DEF Forging
  <1>2. CASE ForgeVideo(p)
    <2>1. /\ (\E r \in Procs \ {p} : Forging(r)) => overlapped'[p]
          /\ \A q \in Procs \ {p} : overlapped[q] \/ Forging(q) => overlapped'[q]
      BY <1>2, ForgeVideoMoves
    <2> QED  BY <1>1, <2>1
  <1>3. CASE Quiet(p) \/ Download(p) \/ Making(p)
    <2>1. overlapped' = overlapped
      BY <1>3, QuietMoves, DownloadMoves, MakingMoves DEF video
    <2>2. CASE Quiet(p)
      <3>1. \/ pc[p] \notin {"idle", "maintain"}
            \/ pc'[p] = pc[p]
            \/ pc'[p] = "maintain"
        BY <2>2, QuietMoves
      <3>2. Forging(p)' => Forging(p)
        BY <3>1 DEF Forging
      <3> QED  BY <1>1, <2>1, <3>2
    <2>3. CASE Download(p)
      <3>1. Forging(p)' => Forging(p)
        BY <2>3, DownloadMoves DEF Forging
      <3> QED  BY <1>1, <2>1, <3>1
    <2>4. CASE Making(p)
      <3>1. pc[p] \notin {"idle", "maintain"}
        BY <2>4, MakingMoves
      <3>2. Forging(p)
        BY <3>1 DEF Forging
      <3> QED  BY <1>1, <2>1, <3>2
    <2> QED  BY <1>3, <2>2, <2>3, <2>4
  <1>4. CASE Rest(p)
    <2>1. ~Forging(p)' /\ \A q \in Procs \ {p} : overlapped'[q] = overlapped[q]
      BY <1>4, RestMoves DEF Forging, ForgeTypes
    <2> QED  BY <1>1, <2>1
  <1> QED  BY <1>2, <1>3, <1>4, Moves

\* A forge that nobody overlaps keeps what it has by its own steps.
LEMMA OwnKeptBySelf ==
  ASSUME NEW p \in Procs, ForgeTypes, JobShape(p), Move(p), overlapped[p] \/ OwnShape(p),
         ~overlapped'[p]
  PROVE  OwnShape(p)'
  <1>p. Parts = {"captions", "background", "audio", "frame"}
    BY DEF Parts
  <1>1. CASE ForgeVideo(p) \/ Rest(p)
    <2>1. pc'[p] \in {"queued", "idle"}
      BY <1>1, ForgeVideoMoves, RestMoves DEF ForgeTypes
    <2> QED  BY <2>1 DEF OwnShape, WithVideo, WithThumbnail
  <1>2. CASE Quiet(p) \/ Download(p) \/ Making(p)
    <2>1. OwnShape(p)
      BY <1>2, QuietMoves, DownloadMoves, MakingMoves DEF video
    <2>2. CASE Quiet(p)
      <3>1. UNCHANGED <<shared, taken>>
        BY <2>2, QuietMoves DEF video
      <3>2. \/ pc'[p] = "failed" \/ pc'[p] = pc[p]
            \/ <<pc[p], pc'[p]>> = <<"assembly", "prepare">>
            \/ <<pc[p], pc'[p]>> = <<"assembled", "frame">>
            \/ <<pc[p], pc'[p]>> \in {<<"variants", "caption">>, <<"caption", "done">>}
            \/ pc'[p] \in {"voice", "background", "voiced", "maintain", "broll", "music", "captions"}
        BY <2>2, QuietMoves
      <3> QED  BY <2>1, <3>1, <3>2 DEF OwnShape, Secured, WithVideo, WithThumbnail
    <2>3. CASE Download(p)
      <3>1. pc'[p] \in {"background", "broll", "maintain", "music", "idle"}
        BY <2>3, DownloadMoves
      <3> QED  BY <3>1 DEF OwnShape, WithVideo, WithThumbnail
    <2>4. CASE Making(p)
      <3>1. \/ /\ pc[p] = "captions" /\ pc'[p] = "assembly" /\ taken' = taken
               /\ shared'["captions"] = p
            \/ /\ pc[p] \in {"captions", "compose", "style"} /\ pc'[p] = "failed" /\ UNCHANGED <<taken, shared>>
            \/ /\ pc[p] = "prepare" /\ pc'[p] = "mix"
               /\ shared'["captions"] = shared["captions"] /\ Secured(p, "background")'
            \/ /\ pc[p] = "mix" /\ pc'[p] = "compose"
               /\ shared'["captions"] = shared["captions"] /\ Secured(p, "audio")'
               /\ Secured(p, "background") => Secured(p, "background")'
            \/ /\ pc[p] = "compose" /\ pc'[p] = "assembled"
               /\ taken'[p]["captions"] = Found(p, "captions")
               /\ taken'[p]["background"] = Read(p, "background")
               /\ taken'[p]["audio"] = Read(p, "audio")
            \/ /\ pc[p] = "frame" /\ pc'[p] = "style"
               /\ taken'[p]["frame"] = "kept" \/ shared'["frame"] = p
               /\ \A other \in Parts \ {"frame"} : taken'[p][other] = taken[p][other]
            \/ /\ pc[p] = "style" /\ pc'[p] = "variants"
               /\ taken[p]["frame"] = "kept" => taken'[p]["frame"] = "kept"
               /\ taken[p]["frame"] # "kept" => taken'[p]["frame"] = Found(p, "frame")
               /\ \A other \in Parts \ {"frame"} : taken'[p][other] = taken[p][other]
        BY <2>4, MakingMoves
      <3>2. CASE pc[p] = "compose" /\ pc'[p] = "assembled"
        <4>1. /\ taken'[p]["captions"] = Found(p, "captions")
              /\ taken'[p]["background"] = Read(p, "background")
              /\ taken'[p]["audio"] = Read(p, "audio")
          BY <3>1, <3>2
        <4>2. Found(p, "captions") = "own" /\ Read(p, "background") = "own" /\ Read(p, "audio") = "own"
          BY <2>1, <3>2 DEF OwnShape, Found, Read, Secured
        <4> QED  BY <3>2, <4>1, <4>2 DEF OwnShape, WithVideo, WithThumbnail
      <3>3. CASE pc[p] = "style" /\ pc'[p] = "variants"
        <4>1. /\ taken[p]["frame"] = "kept" => taken'[p]["frame"] = "kept"
              /\ taken[p]["frame"] # "kept" => taken'[p]["frame"] = Found(p, "frame")
              /\ \A other \in Parts \ {"frame"} : taken'[p][other] = taken[p][other]
          BY <3>1, <3>3
        <4>2. taken[p]["frame"] = "kept" \/ Found(p, "frame") = "own"
          BY <2>1, <3>3 DEF OwnShape, Found
        <4> QED  BY <1>p, <2>1, <3>3, <4>1, <4>2 DEF OwnShape, WithVideo, WithThumbnail
      <3>4. CASE pc[p] \in {"prepare", "mix"} /\ pc'[p] \in {"mix", "compose"}
        BY <2>1, <3>1, <3>4 DEF OwnShape, WithVideo, WithThumbnail
      <3>5. CASE pc'[p] \in {"assembly", "failed"}
        BY <2>1, <3>1, <3>5 DEF OwnShape, WithVideo, WithThumbnail
      <3>6. CASE pc[p] = "frame" /\ pc'[p] = "style"
        <4>1. /\ taken'[p]["frame"] = "kept" \/ shared'["frame"] = p
              /\ \A other \in Parts \ {"frame"} : taken'[p][other] = taken[p][other]
          BY <3>1, <3>6
        <4> QED  BY <1>p, <2>1, <3>6, <4>1 DEF OwnShape, WithVideo, WithThumbnail
      <3> QED  BY <3>1, <3>2, <3>3, <3>4, <3>5, <3>6
    <2> QED  BY <1>2, <2>2, <2>3, <2>4
  <1> QED  BY <1>1, <1>2, Moves

\* It keeps what it has by the steps of the others, which do not forge.
LEMMA OwnKeptByOthers ==
  ASSUME NEW p \in Procs, ForgeTypes, JobShape(p), Move(p), FilesShape,
         NEW q \in Procs \ {p}, ~overlapped'[q]
  PROVE  OwnShape(q)'
  <1>1. pc'[q] = pc[q] /\ taken'[q] = taken[q]
    BY JobShapeOfOthers
  <1>2. CASE ~Forging(q)
    BY <1>1, <1>2 DEF OwnShape, Forging, WithVideo, WithThumbnail
  <1>3. CASE Forging(q)
    <2>1. ~ForgeVideo(p)
      BY <1>3, ForgeVideoMoves
    <2>2. ~overlapped[q]
      <3>1. CASE Quiet(p) \/ Download(p) \/ Making(p)
        BY <3>1, QuietMoves, DownloadMoves, MakingMoves DEF video
      <3>2. CASE Rest(p)
        BY <3>2, RestMoves DEF ForgeTypes
      <3> QED  BY <2>1, <3>1, <3>2, Moves
    <2>3. ~Forging(p) /\ OwnShape(q)
      BY <1>3, <2>2 DEF FilesShape
    <2>4. \A part \in Parts : shared[part] = q => shared'[part] = q
      <3>1. ~Making(p)
        <4>1. Making(p) => pc[p] \notin {"idle", "maintain"}
          BY MakingMoves
        <4> QED  BY <2>3, <4>1 DEF Forging
      <3>2. CASE Quiet(p) \/ Download(p)
        BY <3>2, QuietMoves, DownloadMoves DEF video
      <3>3. CASE Rest(p)
        BY <3>3, RestMoves
      <3> QED  BY <2>1, <3>1, <3>2, <3>3, Moves
    <2> QED  BY <1>1, <2>3, <2>4 DEF OwnShape, Secured, Parts
  <1> QED  BY <1>2, <1>3

-----------------------------------------------------------------------------
(* The theorems.                                                             *)

LEMMA NextForge == ForgeInv /\ [Next]_vars => ForgeInv'
  <1> SUFFICES ASSUME ForgeInv, [Next]_vars PROVE ForgeInv'
    OBVIOUS
  <1>1. CASE UNCHANGED vars
    BY <1>1
    DEF vars, library, video, ForgeInv, ForgeTypes, JobShape, ClipShape, FilesShape, OwnShape, Secured,
        Forging
  <1>2. ASSUME NEW p \in Procs, Move(p) PROVE ForgeInv'
    <2>1. ForgeTypes /\ (\A q \in Procs : JobShape(q)) /\ ClipShape /\ FilesShape
      BY DEF ForgeInv
    <2>2. ForgeTypes'
      BY <1>2, <2>1, ForgeTypesKept
    <2>3. \A q \in Procs : JobShape(q)'
      BY <1>2, <2>1, JobShapeKept
    <2>4. ClipShape'
      BY <1>2, <2>1, ClipShapeKept
    <2>5. \A q, r \in Procs : Forging(q)' /\ Forging(r)' /\ q # r => overlapped'[q]
      BY <1>2, <2>1, OverlapKept DEF FilesShape
    <2>6. ASSUME NEW q \in Procs, ~overlapped'[q] PROVE OwnShape(q)'
      <3>1. CASE q = p
        BY <1>2, <2>1, <2>6, <3>1, OwnKeptBySelf DEF FilesShape
      <3>2. CASE q # p
        BY <1>2, <2>1, <2>6, <3>2, OwnKeptByOthers
      <3> QED  BY <3>1, <3>2
    <2> QED  BY <2>2, <2>3, <2>4, <2>5, <2>6 DEF ForgeInv, FilesShape
  <1> QED  BY <1>1, <1>2 DEF Next, Move

LEMMA ForgeAlways == Spec => []ForgeInv
  BY InitForge, NextForge, PTL DEF Spec

\* A video finished while no other forge of its brand was at work is made of its own
\* captions, background and audio (caption_generator, video_assembler and
\* thumbnail_maker name their files after the brand), and of its own thumbnail unless
\* ffmpeg could not make a frame and the file was only touched, for any number of
\* processes and of forges before it.
THEOREM OwnAlwaysUnlessOverlapped == Spec => []OwnUnlessOverlapped
  <1>1. ForgeInv => OwnUnlessOverlapped
    <2> SUFFICES ASSUME ForgeInv, NEW p \in Procs, pc[p] = "done", ~overlapped[p], NEW part \in Parts
                 PROVE  taken[p][part] = "own" \/ (part = "frame" /\ taken[p][part] = "kept")
      BY DEF OwnUnlessOverlapped
    <2>1. OwnShape(p)
      BY DEF ForgeInv, FilesShape
    <2> QED  BY <2>1 DEF OwnShape, WithVideo, WithThumbnail, Parts
  <1> QED  BY <1>1, ForgeAlways, PTL

\* What background_library lists is a complete file, unless a download emptied the
\* file of another (background_library.py and broll_fetcher.py write under the same name).
THEOREM RowIsAlwaysWhole == Spec => []RowIsWhole
  <1>1. ForgeInv => RowIsWhole
    BY DEF ForgeInv, ClipShape, RowIsWhole
  <1> QED  BY <1>1, ForgeAlways, PTL

\* A job marked as assembled has a video, and one whose forge failed stays in a state
\* that the daily clean-up looks for.
THEOREM AssembledAlwaysHasVideo == Spec => []AssembledHasVideo
  <1>1. ForgeInv => AssembledHasVideo
    <2> SUFFICES ASSUME ForgeInv, NEW p \in Procs
                 PROVE  /\ job[p] = "video_assembled" => taken[p]["captions"] # "none"
                        /\ pc[p] = "failed" => job[p] \in Orphanable
      BY DEF AssembledHasVideo
    <2>1. JobShape(p) /\ ForgeTypes
      BY DEF ForgeInv
    <2>2. {"script_safety_check", "tts_queued", "tts_done", "video_assembly", "video_assembled"}
             \subseteq Orphanable
      BY DEF Orphanable, JobState, Pipeline, TERMINAL_STATES
    <2>3. job[p] \in {"none", "script_safety_check", "tts_queued", "tts_done", "video_assembly",
                      "video_assembled"}
      BY <2>1 DEF ForgeTypes
    <2> QED  BY <2>1, <2>2, <2>3 DEF JobShape
  <1> QED  BY <1>1, ForgeAlways, PTL
=============================================================================
