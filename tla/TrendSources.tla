----------------------------- MODULE TrendSources -----------------------------
(***************************************************************************)
(* TrendScanner.scan_all_brands of modules/trend_scanner/scanner.py and the *)
(* seven source scanners it asks: which requests a scan makes, in which     *)
(* order, what stops it early and what a scanner remembers from one brand   *)
(* to the next.                                                             *)
(*                                                                          *)
(* A scan asks up to four kinds of part, in this order: the platform's own  *)
(* listing ("direct", Reddit), its API ("api", YouTube), batches of Google  *)
(* Trends ("batch") and searches of Google News ("news").  What is found is *)
(* abstracted to whether anything was; what is stored is in ContentSupply.  *)
(* A scanner object lives as long as its process: Restart makes a new one.  *)
(***************************************************************************)
EXTENDS Integers, Sequences

CONSTANTS
    BRANDS,       \* number of brands configured
    PARTS,        \* requests of each kind a source's configuration asks for
    ALLOWANCE,    \* MAX_DAILY_QUOTA - 100
    ATTEMPTS,     \* attempts of a request that is retried: max_retries + 1
    MaxRenewals   \* bound on new counters in a day (TLC only)

Scanners == <<"reddit", "google", "news", "tiktok", "instagram", "youtube", "snapchat">>
Kinds == <<"direct", "api", "batch", "news">>

SourceNames == {"reddit", "google", "news", "tiktok", "instagram", "youtube", "snapchat"}
KindNames == {"direct", "api", "batch", "news"}

ASSUME PartsAssumption == PARTS \in [SourceNames -> [KindNames -> Nat]]
ASSUME BoundsAssumption ==
    /\ BRANDS \in Nat
    /\ ALLOWANCE \in Nat \ {0}
    /\ ATTEMPTS \in Nat \ {0}
    /\ MaxRenewals \in Nat

VARIABLES
    pc,         \* where the process is
    brands,     \* brands still to be scanned
    source,     \* position in Scanners
    kind,       \* position in Kinds
    left,       \* requests of this kind still to be made
    attempt,    \* attempts of the current request that failed
    found,      \* what a scan looks at before it asks the next kind: anything found?
    blocked,    \* RedditScanner._direct_api_blocked
    used,       \* YouTubeScanner._daily_quota_used
    stale,      \* _quota_reset_date lies before today
    stopping,   \* a shutdown has been requested
    calls,      \* history: requests YouTube answered today
    renewals    \* history: counters of them that were in use today

place == <<pc, brands, source, kind, left, attempt, found>>
quota == <<used, stale, calls, renewals>>
vars == <<place, quota, blocked, stopping>>

Init ==
    /\ pc = "idle"
    /\ brands = 0
    /\ source = 1
    /\ kind = 1
    /\ left = 0
    /\ attempt = 0
    /\ found = FALSE
    /\ blocked = FALSE
    /\ used = 0
    /\ stale = FALSE
    /\ stopping = FALSE
    /\ calls = 0
    /\ renewals = 1

-----------------------------------------------------------------------------
(* The brands, and the sources of a brand.                                  *)

\* scan_all_brands, when the scheduler lets it start.
Start ==
    /\ pc = "idle"
    /\ ~stopping
    /\ pc' = "brand"
    /\ brands' = BRANDS
    /\ UNCHANGED <<source, kind, left, attempt, found, quota, blocked, stopping>>

\* The shutdown is looked at between two brands only.
NextBrand ==
    /\ pc = "brand"
    /\ IF brands = 0 \/ stopping
          THEN /\ pc' = "idle"
               /\ UNCHANGED <<brands, source>>
          ELSE /\ pc' = "source"
               /\ brands' = brands - 1
               /\ source' = 1
    /\ UNCHANGED <<kind, left, attempt, found, quota, blocked, stopping>>

\* scan_brand: every source has a try of its own.
NextSource ==
    /\ pc = "source"
    /\ IF source > Len(Scanners)
          THEN pc' = "brand" /\ UNCHANGED <<kind, found>>
          ELSE pc' = "kind" /\ kind' = 1 /\ found' = FALSE
    /\ UNCHANGED <<brands, source, left, attempt, quota, blocked, stopping>>

\* What the scans do with what they found, and with an exception of theirs.
Store ==
    /\ pc = "store"
    /\ pc' = "source"
    /\ source' = source + 1
    /\ UNCHANGED <<brands, kind, left, attempt, found, quota, blocked, stopping>>

-----------------------------------------------------------------------------
(* Which kinds a scan asks.                                                 *)

\* No subreddits, no scan.  Whether the fallback is needed is decided once,
\* before its first request, so found is not raised by the fallback.
RedditScan(k) ==
    /\ PARTS["reddit"].direct > 0
    /\ k = "direct" => ~blocked
    /\ k # "direct" => blocked \/ ~found

YouTubeScan(k) == k = "news" => ~found

GoogleTrendsScan(k) == k = "batch"

NewsScan(k) == k = "news"

TikTokScan(k) == k \in {"batch", "news"}

InstagramScan(k) == k \in {"batch", "news"}

SnapchatScan(k) == k \in {"batch", "news"}

Asks(s, k) ==
    /\ PARTS[s][k] > 0
    /\ s = "reddit" => RedditScan(k)
    /\ s = "youtube" => YouTubeScan(k)
    /\ s = "google" => GoogleTrendsScan(k)
    /\ s = "news" => NewsScan(k)
    /\ s = "tiktok" => TikTokScan(k)
    /\ s = "instagram" => InstagramScan(k)
    /\ s = "snapchat" => SnapchatScan(k)

\* _fetch_trending_videos begins with a new counter when the day is another.
Renewed(s, k) == s = "youtube" /\ k = "api" /\ stale

EnterKind ==
    /\ pc = "kind"
    /\ kind <= Len(Kinds)
    /\ IF Asks(Scanners[source], Kinds[kind])
          THEN /\ pc' = "ask"
               /\ left' = PARTS[Scanners[source]][Kinds[kind]]
               /\ attempt' = 0
               /\ UNCHANGED kind
               /\ IF Renewed(Scanners[source], Kinds[kind])
                     THEN /\ used' = 0
                          /\ stale' = FALSE
                          /\ renewals' = renewals + 1
                          /\ UNCHANGED calls
                     ELSE UNCHANGED quota
          ELSE /\ kind' = kind + 1
               /\ UNCHANGED <<pc, left, attempt, quota>>
    /\ UNCHANGED <<brands, source, found, blocked, stopping>>

\* The last kind is done.
LeaveKinds ==
    /\ pc = "kind"
    /\ kind > Len(Kinds)
    /\ pc' = "store"
    /\ UNCHANGED <<brands, source, kind, left, attempt, found, quota, blocked, stopping>>

LeaveKind ==
    /\ pc = "ask"
    /\ left = 0
    /\ pc' = "kind"
    /\ kind' = kind + 1
    /\ UNCHANGED <<brands, source, left, attempt, found, quota, blocked, stopping>>

-----------------------------------------------------------------------------
(* One request.                                                             *)

In(s, k) == pc = "ask" /\ left > 0 /\ Scanners[source] = s /\ Kinds[kind] = k

\* The request is over, whatever came back; the loops of the scanners swallow
\* what a request raises in the end.
Done == left' = left - 1 /\ attempt' = 0

\* Faulty variant: one attempt too many.
FailedLate ==
    IF attempt < ATTEMPTS
       THEN attempt' = attempt + 1 /\ UNCHANGED left
       ELSE Done

\* Faulty variant: after the last attempt it begins again.
FailedForever ==
    /\ attempt' = (attempt + 1) % ATTEMPTS
    /\ UNCHANGED left

\* retry_with_backoff around it.
Failed ==
    IF attempt + 1 < ATTEMPTS
       THEN attempt' = attempt + 1 /\ UNCHANGED left
       ELSE Done

Retried(s, k) ==
    /\ In(s, k)
    /\ Done \/ Failed
    /\ UNCHANGED <<pc, brands, source, kind, found, quota, blocked, stopping>>

Hot == left % 2 = 0

\* "hot" and then "top" of a subreddit, in one try: an exception (a Retry-After
\* that is no number) skips the rest of it.  Only after both is it seen that
\* Reddit blocks the process.
RedditPosts ==
    /\ In("reddit", "direct")
    /\ \/ /\ found' \in {found, TRUE}
          /\ left' = IF ~Hot /\ blocked THEN 0 ELSE left - 1
          /\ UNCHANGED blocked
       \/ /\ blocked' = TRUE
          /\ left' = IF Hot THEN left - 1 ELSE 0
          /\ UNCHANGED found
       \/ /\ left' = IF blocked THEN 0 ELSE IF Hot THEN left - 2 ELSE left - 1
          /\ UNCHANGED <<found, blocked>>
    /\ UNCHANGED <<pc, brands, source, kind, attempt, quota, stopping>>

\* Faulty variant: the counter is looked at after the last category only.
YouTubeCategoryUnlimited ==
    /\ In("youtube", "api")
    /\ \/ Done \/ Failed
    /\ used' = used + 1
    /\ calls' = calls + 1
    /\ UNCHANGED <<pc, brands, source, kind, found, stale, renewals, blocked, stopping>>

\* A category: the allowance is looked at before its first attempt, and every
\* answer is counted, a refusal (403, not retried) and an error (retried) too.
\* A request that raises before its answer is not counted.
YouTubeCategory ==
    /\ In("youtube", "api")
    /\ IF attempt = 0 /\ used >= ALLOWANCE
          THEN /\ left' = 0
               /\ UNCHANGED <<attempt, found, used, calls>>
          ELSE \/ /\ Done
                  /\ found' \in {found, TRUE}
                  /\ used' = used + 1
                  /\ calls' = calls + 1
               \/ /\ Failed
                  /\ UNCHANGED found
                  /\ \/ used' = used + 1 /\ calls' = calls + 1
                     \/ UNCHANGED <<used, calls>>
    /\ UNCHANGED <<pc, brands, source, kind, stale, renewals, blocked, stopping>>

YouTubeTrendsBatch ==
    /\ In("youtube", "batch")
    /\ \/ Done /\ found' \in {found, TRUE}
       \/ Failed /\ UNCHANGED found
    /\ UNCHANGED <<pc, brands, source, kind, quota, blocked, stopping>>

YouTubeNews == Retried("youtube", "news")

RedditTrendsBatch == Retried("reddit", "batch")
RedditNews == Retried("reddit", "news")

GoogleTrendsBatch == Retried("google", "batch")

NewsArticles == Retried("news", "news")

TikTokTrendsBatch == Retried("tiktok", "batch")
TikTokNews == Retried("tiktok", "news")

InstagramTrendsBatch == Retried("instagram", "batch")
InstagramNews == Retried("instagram", "news")

SnapchatTrendsBatch == Retried("snapchat", "batch")
SnapchatNews == Retried("snapchat", "news")

Ask ==
    \/ RedditPosts \/ RedditTrendsBatch \/ RedditNews
    \/ YouTubeCategory \/ YouTubeTrendsBatch \/ YouTubeNews
    \/ GoogleTrendsBatch
    \/ NewsArticles
    \/ TikTokTrendsBatch \/ TikTokNews
    \/ InstagramTrendsBatch \/ InstagramNews
    \/ SnapchatTrendsBatch \/ SnapchatNews

-----------------------------------------------------------------------------
(* What happens around a scan.                                              *)

Signal ==
    /\ ~stopping
    /\ stopping' = TRUE
    /\ UNCHANGED <<place, quota, blocked>>

\* Midnight, in the middle of whatever is being done.
NewDay ==
    /\ stale' = TRUE
    /\ calls' = 0
    /\ renewals' = 1
    /\ UNCHANGED <<place, used, blocked, stopping>>

\* The process dies or is ended; the next one has scanners of its own.
Restart ==
    /\ renewals < MaxRenewals
    /\ pc' = "idle"
    /\ found' = FALSE
    /\ blocked' = FALSE
    /\ used' = 0
    /\ stale' = FALSE
    /\ stopping' = FALSE
    /\ renewals' = renewals + 1
    /\ UNCHANGED <<brands, source, kind, left, attempt, calls>>

ScanStep ==
    NextBrand \/ NextSource \/ Store \/ EnterKind \/ LeaveKinds \/ LeaveKind \/ Ask

Next == Start \/ ScanStep \/ Signal \/ NewDay \/ Restart

\* A process that runs makes its next step: every request has a timeout and
\* every wait an end.
Spec == Init /\ [][Next]_vars /\ WF_vars(ScanStep)

-----------------------------------------------------------------------------
\* The variables keep their types.
TypeOK ==
    /\ pc \in {"idle", "brand", "source", "kind", "ask", "store"}
    /\ brands \in 0..BRANDS
    /\ source \in 1..8
    /\ kind \in 1..5
    /\ left \in Nat
    /\ attempt \in 0..(ATTEMPTS - 1)
    /\ found \in BOOLEAN
    /\ blocked \in BOOLEAN
    /\ used \in Nat
    /\ stale \in BOOLEAN
    /\ stopping \in BOOLEAN
    /\ calls \in Nat
    /\ renewals \in Nat \ {0}

\* The allowance and the attempts of the category that passes it.
Budget == ALLOWANCE - 1 + ATTEMPTS

\* YouTube answers a process at most Budget times for every counter the day has
\* seen: one more for a scan that goes on over midnight and one more for every
\* restart, since the counter is neither dated during a scan nor saved.
CallsBounded == calls <= renewals * Budget

\* A scan that runs comes to its end, whatever the sources answer.
ScanEnds == pc # "idle" ~> pc = "idle"
=============================================================================
