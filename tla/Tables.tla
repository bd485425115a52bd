------------------------------- MODULE Tables -------------------------------
(***************************************************************************)
(* What the frontend loads into nftables beside its routes, and keeps in   *)
(* step with it: the published ruleset, whose redirects hand game queries  *)
(* to the sockets of the query cache; the edge protection table; and the   *)
(* blocklist table, whose set a background refresher fills from a feed.    *)
(*                                                                         *)
(* Three goroutines work on them: the portal's request (a settings save or *)
(* a revert, one at a time under reconfMu), the blocklist refresher, and   *)
(* Run's sampler, which corrects the agent's record of the tables from the *)
(* kernel.  The refresher and the portal exclude each other by blMu alone, *)
(* the sampler takes neither lock.  Commands fail, tables are flushed by   *)
(* hand, and the process is killed at any point and restarted by its unit. *)
(***************************************************************************)
EXTENDS Naturals

CONSTANTS Configs,    \* settings: [armed, protect, blocklist, spans]
          Off,        \* a feature switched off, a table not loaded
          Spans,      \* the query-cache port sets a configuration may name
          NoSpans,    \* the empty one
          Lists,      \* what the feed may serve
          NoList,     \* nothing remembered, nothing in the set
          Size,       \* networks in a list
          Wide,       \* lists that cover too much of the address space
          MaxSaves, MaxFaults, MaxCrashes, MaxFeeds

ASSUME TablesAssumption ==
  /\ NoList \notin Lists /\ Wide \subseteq Lists /\ NoSpans \in Spans
  /\ Size \in [Lists \cup {NoList} -> Nat] /\ Size[NoList] = 0

VARIABLES
  cfg, reverted,         \* Engine's fields; cfg.armed stands for the runner too
  dCfg, dReverted, dSpans, cache,  \* the store and the blocklist's cache file
  redirects, tab, feedSet,         \* the kernel
  on, applied,           \* table -> the agent's record and its reload latch
  nets, etag, loadFailed,  \* the remembered list, its tag, a load to be retried
  sockets,               \* the ports the running query cache answers on
  op, new,               \* the portal's request: where it stands, what it saves
  ref, job,              \* the refresher, and what it read before it blocked
  samp,                  \* the sampler: what it read, before it records it
  blMu, feed,
  stale,                 \* history: the last armed load of the published ruleset or
                         \* a later removal of it failed, or the record of the load
                         \* was not written or could not be read
  held,                  \* the blocklist as configured was loaded by this process,
                         \* and nothing took it away or denied it since
  saves, faults, crashes, feeds

store == <<dCfg, dReverted, dSpans>>
kernel == <<redirects, tab, feedSet>>
latch == <<on, applied>>
list == <<nets, etag, loadFailed>>
counts == <<saves, faults, crashes, feeds>>
tableVars == <<cfg, reverted, store, cache, kernel, latch, list, sockets, op, new, ref, job,
               samp, blMu, feed, stale, held, counts>>

Tabs == {"protect", "blocklist"}
Idle == [at |-> "idle"]

TypeOK ==
  /\ {cfg, dCfg} \subseteq Configs
  /\ {redirects, dSpans, sockets} \subseteq Spans
  /\ {nets, etag, feedSet, cache} \subseteq Lists \cup {NoList}
  /\ blMu \in {"free", "portal", "refresher"}

TablesInit ==
  /\ cfg \in Configs /\ dCfg = cfg
  /\ reverted = FALSE /\ dReverted = FALSE /\ dSpans = NoSpans
  /\ cache = NoList /\ redirects = NoSpans /\ tab = [t \in Tabs |-> Off] /\ feedSet = NoList
  /\ on = [t \in Tabs |-> FALSE] /\ applied = [t \in Tabs |-> Off]
  /\ nets = NoList /\ etag = NoList /\ loadFailed = FALSE
  /\ sockets = NoSpans
  /\ op = "rules" /\ new = cfg /\ ref = "idle" /\ job = Idle /\ samp = Idle
  /\ blMu = "free" /\ feed \in Lists /\ stale = FALSE /\ held = FALSE
  /\ saves = 0 /\ faults = 0 /\ crashes = 0 /\ feeds = 0

Fails == faults < MaxFaults /\ faults' = faults + 1

-----------------------------------------------------------------------------
(* A settings save: Reconfigure and applySystemConfig.                     *)

(* The configuration is stored first; the query cache goes down with the   *)
(* probers before anything is loaded.                                      *)
Save(c) ==
  /\ op = "idle" /\ saves < MaxSaves
  /\ saves' = saves + 1 /\ new' = c /\ dCfg' = c /\ sockets' = NoSpans /\ op' = "swap"
  /\ UNCHANGED <<cfg, reverted, dReverted, dSpans, cache, kernel, latch, list, ref, job,
                 samp, blMu, feed, stale, held, faults, crashes, feeds>>

(* The latch in the store comes off next; a failed write is only logged.   *)
Unlatches ==
  \/ dReverted' = FALSE /\ UNCHANGED faults
  \/ dReverted /\ Fails /\ UNCHANGED dReverted

(* The swap of the runner does not wait for a load under way.              *)
SwapsAnyway ==
  /\ op = "swap" /\ op' = "rules"
  /\ cfg' = new /\ reverted' = FALSE /\ Unlatches
  /\ UNCHANGED <<dCfg, dSpans, cache, kernel, latch, list, sockets, new, ref, job, samp, blMu,
                 feed, stale, held, saves, crashes, feeds>>

Swap ==
  /\ op = "swap" /\ blMu = "free" /\ op' = "rules"
  /\ cfg' = new /\ reverted' = FALSE /\ Unlatches
  /\ UNCHANGED <<dCfg, dSpans, cache, kernel, latch, list, sockets, new, ref, job, samp, blMu,
                 feed, stale, held, saves, crashes, feeds>>

(* The published ruleset, with its redirects; observe mode loads nothing.  *)
ApplyRuleset ==
  /\ op = "rules"
  /\ \/ /\ cfg.armed /\ redirects' = cfg.spans /\ op' = "record" /\ stale' = FALSE
        /\ UNCHANGED faults
     \/ cfg.armed /\ Fails /\ op' = "protect" /\ stale' = TRUE /\ UNCHANGED redirects
     \/ ~cfg.armed /\ op' = "protect" /\ UNCHANGED <<redirects, stale, faults>>
  /\ UNCHANGED <<cfg, reverted, store, cache, tab, feedSet, latch, list, sockets, new, ref,
                 job, samp, blMu, feed, held, saves, crashes, feeds>>

(* The record of the redirects is not written.                             *)
RecordsNothing == op = "record" /\ op' = "protect"
  /\ UNCHANGED <<cfg, reverted, store, cache, kernel, latch, list, sockets, new,
                 ref, job, samp, blMu, feed, stale, held, counts>>

PersistAppliedQueryCache ==
  /\ op = "record" /\ op' = "protect"
  /\ \/ dSpans' = cfg.spans /\ UNCHANGED <<stale, faults>>
     \/ Fails /\ stale' = TRUE /\ UNCHANGED dSpans
  /\ UNCHANGED <<cfg, reverted, dCfg, dReverted, cache, kernel, latch, list, sockets, new,
                 ref, job, samp, blMu, feed, held, saves, crashes, feeds>>

(* Loading table t, or taking it out: the record of it is only moved where *)
(* a command really ran, the latch goes whenever the table may differ.     *)
Unchanged(t) == cfg.armed /\ on[t] /\ applied[t] = cfg[t]

(* A removal that fails is not noticed: the table stays, its record goes.  *)
RemoveTable(t) ==
  /\ cfg[t] = Off
  /\ \/ tab' = [tab EXCEPT ![t] = Off] /\ UNCHANGED faults
     \/ tab[t] # Off /\ Fails /\ UNCHANGED tab
  /\ on' = [on EXCEPT ![t] = FALSE] /\ applied' = [applied EXCEPT ![t] = Off]

Load(t) ==
  /\ cfg[t] # Off /\ ~Unchanged(t) /\ cfg.armed
  /\ tab' = [tab EXCEPT ![t] = cfg[t]]
  /\ on' = [on EXCEPT ![t] = TRUE] /\ applied' = [applied EXCEPT ![t] = cfg[t]]
  /\ UNCHANGED faults

LoadFails(t) ==
  /\ cfg[t] # Off /\ ~Unchanged(t)
  /\ \/ cfg.armed /\ Fails
     \/ ~cfg.armed /\ UNCHANGED faults
  /\ applied' = [applied EXCEPT ![t] = Off] /\ UNCHANGED <<tab, on>>

ApplyProtect ==
  /\ op = "protect" /\ op' = "blocklist"
  /\ \/ RemoveTable("protect") \/ Load("protect") \/ LoadFails("protect")
     \/ cfg.protect # Off /\ Unchanged("protect") /\ UNCHANGED <<tab, latch, faults>>
  /\ UNCHANGED <<cfg, reverted, store, cache, redirects, feedSet, list, sockets, new, ref, job,
                 samp, blMu, feed, stale, held, saves, crashes, feeds>>

(* Removing the blocklist takes no lock; loading it takes blMu, which      *)
(* stays taken until the set is filled again.                              *)
ApplyBlocklist ==
  /\ op = "blocklist"
  /\ \/ /\ RemoveTable("blocklist") /\ op' = "start" /\ held' = FALSE
        /\ feedSet' = (IF tab'["blocklist"] = Off THEN NoList ELSE feedSet)
        /\ UNCHANGED blMu
     \/ /\ blMu = "free" /\ Load("blocklist") /\ feedSet' = NoList /\ held' = TRUE
        /\ blMu' = "portal" /\ op' = "fill"
     \/ /\ blMu = "free" /\ op' = "start"
        /\ \/ LoadFails("blocklist") /\ held' = FALSE
           \/ /\ cfg.blocklist # Off /\ Unchanged("blocklist")
              /\ UNCHANGED <<tab, latch, faults, held>>
        /\ UNCHANGED <<feedSet, blMu>>
  /\ UNCHANGED <<cfg, reverted, store, cache, redirects, list, sockets, new, ref, job, samp,
                 feed, stale, saves, crashes, feeds>>

(* loadBlocklistElements with what its caller read: one transaction, which *)
(* fails where there is no table.                                          *)
LoadElements(isOn, armed, elems) ==
  \/ /\ ~isOn \/ ~armed \/ elems = NoList
     /\ loadFailed' = FALSE /\ UNCHANGED <<feedSet, faults>>
  \/ /\ isOn /\ armed /\ elems # NoList
     /\ \/ /\ tab["blocklist"] # Off /\ feedSet' = elems /\ loadFailed' = FALSE
           /\ UNCHANGED faults
        \/ /\ tab["blocklist"] = Off /\ loadFailed' = TRUE /\ UNCHANGED <<feedSet, faults>>
        \/ Fails /\ loadFailed' = TRUE /\ UNCHANGED feedSet

Fill ==
  /\ op = "fill" /\ op' = "start" /\ blMu' = "free"
  /\ LoadElements(on["blocklist"], cfg.armed, nets)
  /\ UNCHANGED <<cfg, reverted, store, cache, redirects, tab, latch, nets, etag, sockets, new,
                 ref, job, samp, feed, stale, held, saves, crashes, feeds>>

(* The record of the last armed load; unreadable, no cache is started.     *)
AppliedQueryCacheSpans ==
  \/ sockets' = dSpans /\ UNCHANGED <<stale, faults>>
  \/ Fails /\ sockets' = NoSpans /\ stale' = TRUE

(* Armed, the cache serves the configuration; otherwise what the last      *)
(* armed load recorded.                                                    *)
StartQueryCache ==
  /\ op = "start" /\ op' = "idle"
  /\ \/ cfg.armed /\ sockets' = cfg.spans /\ UNCHANGED <<stale, faults>>
     \/ ~cfg.armed /\ AppliedQueryCacheSpans
  /\ UNCHANGED <<cfg, reverted, store, cache, kernel, latch, list, new, ref, job, samp, blMu,
                 feed, held, saves, crashes, feeds>>

-----------------------------------------------------------------------------
(* Revert: latched before anything is removed, and the latch stored, which *)
(* may fail; each removing command, too, may fail, and its error is        *)
(* dropped; the record of the redirects is cleared whether or not they     *)
(* went.                                                                   *)

RevertLatches ==
  /\ op = "idle" /\ saves < MaxSaves /\ blMu = "free"
  /\ saves' = saves + 1
  /\ reverted' = TRUE /\ sockets' = NoSpans
  /\ \/ dReverted' = TRUE /\ UNCHANGED faults
     \/ ~dReverted /\ Fails /\ UNCHANGED dReverted
  /\ blMu' = "portal" /\ op' = "unpublish"
  /\ UNCHANGED <<cfg, dCfg, dSpans, cache, kernel, latch, list, new, ref, job, samp, feed,
                 stale, held, crashes, feeds>>

Unpublishes ==
  \/ redirects' = NoSpans /\ stale' = FALSE /\ UNCHANGED faults
  \/ redirects # NoSpans /\ Fails /\ stale' = TRUE /\ UNCHANGED redirects

Forgets ==
  \/ dSpans' = NoSpans /\ UNCHANGED faults
  \/ Fails /\ UNCHANGED dSpans

Untables ==
  \E kept \in SUBSET {t \in Tabs : tab[t] # Off} :
    /\ IF kept = {} THEN UNCHANGED faults ELSE Fails
    /\ tab' = [t \in Tabs |-> IF t \in kept THEN tab[t] ELSE Off]
    /\ feedSet' = IF "blocklist" \in kept THEN feedSet ELSE NoList

RevertRemoves ==
  /\ \/ /\ op = "unpublish" /\ op' = "forget" /\ Unpublishes
        /\ UNCHANGED <<tab, feedSet, dSpans>>
     \/ /\ op = "forget" /\ op' = "untable" /\ Forgets
        /\ UNCHANGED <<redirects, tab, feedSet, stale>>
     \/ /\ op = "untable" /\ op' = "observe" /\ Untables
        /\ UNCHANGED <<redirects, dSpans, stale>>
  /\ UNCHANGED <<cfg, reverted, dCfg, dReverted, cache, latch, list, sockets, new, ref, job,
                 samp, blMu, feed, held, saves, crashes, feeds>>

RevertObserves ==
  /\ op = "observe" /\ op' = "idle" /\ blMu' = "free"
  /\ cfg' = [cfg EXCEPT !.armed = FALSE] /\ new' = cfg'
  /\ \/ dCfg' = cfg' /\ UNCHANGED faults
     \/ Fails /\ UNCHANGED dCfg
  /\ on' = [t \in Tabs |-> FALSE] /\ applied' = [t \in Tabs |-> Off]
  /\ held' = FALSE
  /\ UNCHANGED <<reverted, dReverted, dSpans, cache, kernel, list, sockets, ref, job, samp,
                 feed, stale, saves, crashes, feeds>>

-----------------------------------------------------------------------------
(* The refresher.                                                          *)

Wanted == cfg.blocklist # Off /\ ~reverted

(* maybeRefreshBlocklist: a load the kernel refused is tried again.        *)
RetryLoad ==
  /\ ref = "idle" /\ Wanted /\ loadFailed /\ ref' = "install"
  /\ UNCHANGED <<cfg, reverted, store, cache, kernel, latch, list, sockets, op, new, job, samp,
                 blMu, feed, stale, held, counts>>

(* The tag and the size of the list are read before the fetch.             *)
Fetch ==
  /\ ref = "idle" /\ Wanted
  /\ ref' = "fetch" /\ job' = [at |-> "fetch", etag |-> etag, previous |-> Size[nets]]
  /\ UNCHANGED <<cfg, reverted, store, cache, kernel, latch, list, sockets, op, new, samp,
                 blMu, feed, stale, held, counts>>

NotModified == job.etag = feed
Shrunk == job.previous > 0 /\ 2 * Size[feed] < job.previous

(* A network shorter than the floor, or more addresses than the ceiling.   *)
TooWide == feed \in Wide

(* No answer, or one that is not a list from its first line to its last.   *)
Unparsed == Fails

(* An error, a list that shrank by more than half and one that covers too  *)
(* much all leave the list that is loaded, and its tag.                    *)
FetchRefused ==
  /\ ref = "fetch" /\ ref' = "idle" /\ job' = Idle
  /\ \/ Unparsed
     \/ ~NotModified /\ (Shrunk \/ TooWide) /\ UNCHANGED faults
  /\ UNCHANGED <<cfg, reverted, store, cache, kernel, latch, list, sockets, op, new, samp,
                 blMu, feed, stale, held, saves, crashes, feeds>>

(* 304: the list in memory is confirmed, and stored again with its tag.    *)
FetchConfirms ==
  /\ ref = "fetch" /\ NotModified /\ ref' = "idle" /\ job' = Idle
  /\ cache' \in {cache, nets}
  /\ UNCHANGED <<cfg, reverted, store, kernel, latch, list, sockets, op, new, samp, blMu, feed,
                 stale, held, counts>>

(* 200: the list is remembered, then its tag, then the file is replaced    *)
(* whole, or not at all, and the set is loaded.                            *)
FetchAccepted ==
  /\ ref = "fetch" /\ ~NotModified /\ ~Shrunk /\ ~TooWide
  /\ nets' = feed /\ ref' = "note" /\ job' = Idle
  /\ UNCHANGED <<cfg, reverted, store, cache, kernel, latch, etag, loadFailed, sockets, op, new,
                 samp, blMu, feed, stale, held, counts>>

Note ==
  /\ ref = "note" /\ ref' = "install"
  /\ etag' = nets /\ cache' \in {cache, nets}
  /\ UNCHANGED <<cfg, reverted, store, kernel, latch, nets, loadFailed, sockets, op, new, job,
                 samp, blMu, feed, stale, held, counts>>

(* installBlocklistElements: the runner in force is captured under blMu.   *)
Install ==
  /\ ref = "install" /\ blMu = "free"
  /\ blMu' = "refresher" /\ ref' = "load"
  /\ job' = [at |-> "load", on |-> on["blocklist"], armed |-> cfg.armed, nets |-> nets]
  /\ UNCHANGED <<cfg, reverted, store, cache, kernel, latch, list, sockets, op, new, samp, feed,
                 stale, held, counts>>

InstallLoads ==
  /\ ref = "load" /\ ref' = "idle" /\ job' = Idle /\ blMu' = "free"
  /\ LoadElements(job.on, job.armed, job.nets)
  /\ UNCHANGED <<cfg, reverted, store, cache, redirects, tab, latch, nets, etag, sockets, op,
                 new, samp, feed, stale, held, saves, crashes, feeds>>

-----------------------------------------------------------------------------
(* The sampler reads a table back, then records what it saw.               *)

TableState(t) == IF tab[t] = Off THEN "missing" ELSE "table"

SampleReads(t) ==
  /\ samp = Idle /\ (on[t] \/ cfg[t] # Off)
  /\ t = "blocklist" => cfg[t] # Off
  /\ \/ samp' = [at |-> t, saw |-> TableState(t)]
        /\ UNCHANGED faults
     \/ samp' = [at |-> t, saw |-> "nothing"] /\ Fails
  /\ UNCHANGED <<cfg, reverted, store, cache, kernel, latch, list, sockets, op, new, ref, job,
                 blMu, feed, stale, held, saves, crashes, feeds>>

(* Any failed read is taken for a missing table.                           *)
RecordsAnyFailure(t) ==
  /\ samp # Idle /\ samp.at = t /\ samp' = Idle
  /\ on' = [on EXCEPT ![t] = (samp.saw = "table")]
  /\ applied' = [applied EXCEPT ![t] = IF samp.saw = "table" THEN @ ELSE Off]
  /\ held' = (held /\ ~(t = "blocklist" /\ samp.saw = "missing"))
  /\ UNCHANGED <<cfg, reverted, store, cache, kernel, list, sockets, op, new, ref, job, blMu,
                 feed, stale, counts>>

SampleRecords(t) ==
  /\ samp # Idle /\ samp.at = t /\ samp' = Idle
  /\ on' = [on EXCEPT ![t] = (samp.saw = "table") \/ (samp.saw = "nothing" /\ @)]
  /\ applied' = [applied EXCEPT ![t] = IF samp.saw = "table" THEN @ ELSE Off]
  /\ held' = (held /\ ~(t = "blocklist" /\ samp.saw = "missing"))
  /\ UNCHANGED <<cfg, reverted, store, cache, kernel, list, sockets, op, new, ref, job, blMu,
                 feed, stale, counts>>

-----------------------------------------------------------------------------
(* Outside the process.                                                    *)

FeedChanges(l) ==
  /\ feeds < MaxFeeds /\ feeds' = feeds + 1 /\ l # feed /\ feed' = l
  /\ UNCHANGED <<cfg, reverted, store, cache, kernel, latch, list, sockets, op, new, ref, job,
                 samp, blMu, stale, held, saves, faults, crashes>>

FlushedByHand(t) ==
  /\ Fails /\ tab[t] # Off /\ tab' = [tab EXCEPT ![t] = Off]
  /\ feedSet' = IF t = "blocklist" THEN NoList ELSE feedSet
  /\ held' = (held /\ t # "blocklist")
  /\ UNCHANGED <<cfg, reverted, store, cache, redirects, latch, list, sockets, op, new, ref,
                 job, samp, blMu, feed, stale, saves, crashes, feeds>>

(* A kill and a restart: New and Run, up to the first apply, which a       *)
(* stored revert latch withholds.                                          *)
Crash ==
  /\ crashes < MaxCrashes /\ crashes' = crashes + 1
  /\ cfg' = dCfg /\ new' = dCfg /\ reverted' = dReverted
  /\ nets' = cache /\ etag' = cache /\ loadFailed' = FALSE
  /\ on' = [t \in Tabs |-> FALSE] /\ applied' = [t \in Tabs |-> Off]
  /\ sockets' = NoSpans /\ op' = IF dReverted THEN "idle" ELSE "rules"
  /\ ref' = "idle" /\ job' = Idle /\ samp' = Idle /\ blMu' = "free"
  /\ held' = FALSE /\ stale' = (stale \/ op = "record")
  /\ UNCHANGED <<store, cache, kernel, feed, saves, faults, feeds>>

Portal ==
  \/ Swap \/ ApplyRuleset \/ PersistAppliedQueryCache \/ ApplyProtect \/ ApplyBlocklist
  \/ Fill \/ StartQueryCache \/ RevertRemoves \/ RevertObserves

Refresher ==
  \/ RetryLoad \/ FetchRefused \/ FetchConfirms \/ FetchAccepted
  \/ Note \/ Install \/ InstallLoads

Sampler == \E t \in Tabs : SampleReads(t) \/ SampleRecords(t)

TablesNext ==
  \/ \E c \in Configs : Save(c)
  \/ RevertLatches \/ Portal \/ Fetch \/ Refresher \/ Sampler
  \/ \E l \in Lists : FeedChanges(l)
  \/ \E t \in Tabs : FlushedByHand(t)
  \/ Crash

(* A request runs to its end, the refresher's loop goes round and its      *)
(* timers fire; a sample is not promised, the portal may be closed.        *)
TablesSpec ==
  /\ TablesInit /\ [][TablesNext]_tableVars
  /\ WF_tableVars(Portal) /\ WF_tableVars(Refresher) /\ WF_tableVars(Fetch)

-----------------------------------------------------------------------------
(* Properties.                                                             *)

(* Observe mode moves nothing: while the agent is not armed, no step of    *)
(* its own puts a redirect, a table or a list into the kernel, not even a  *)
(* load that was under way when the mode changed (the reason Reconfigure   *)
(* swaps the runner under blMu).  It may only take away.                   *)
ObserveHolds ==
  [][~cfg.armed =>
       /\ redirects' \in {redirects, NoSpans}
       /\ \A t \in Tabs : tab'[t] \in {tab[t], Off}
       /\ feedSet' \in {feedSet, NoList}]_tableVars

(* A query the kernel redirects has a socket that answers it: once a       *)
(* request or a start is over, the ports the loaded ruleset redirects are  *)
(* the ones the query cache listens on, whatever was saved in observe mode *)
(* in between and wherever the process was killed (the record of the last  *)
(* armed load), save where that armed load or its record itself failed, or *)
(* a revert's removal of the ruleset did, whose record goes all the same.  *)
RedirectsAnswered ==
  op = "idle" /\ ~reverted /\ ~stale => redirects \in {NoSpans, sockets}

(* A blocklist this process loaded holds the list it remembers, or a retry *)
(* is due: no refresh, refused load, save, change of mode or failed read   *)
(* of the kernel leaves it empty or out of date, for the answers that      *)
(* confirm the list afterwards load nothing.                               *)
ListLoaded ==
  op = "idle" /\ ref = "idle" /\ held /\ cfg.armed /\ ~reverted
  => feedSet = nets \/ loadFailed
=============================================================================
