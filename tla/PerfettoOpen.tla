---------------------------- MODULE PerfettoOpen ----------------------------
(* python/cortrace/perfetto_open.py: a server on the loopback interface hands *)
(* one trace to the browser. serve_and_open (main) starts the server, opens   *)
(* the browser, waits for the page's beacon and stops; the server has a       *)
(* thread per request, a daemon that main does not wait for. The pages, which *)
(* run the script of _HOST_PAGE, and the user are the environment.            *)
EXTENDS Naturals

CONSTANTS
  Pages,       \* tabs that may load the host page
  MaxLoads     \* bound: how often the user loads a page, all tabs together

ASSUME LoadsAssumption == MaxLoads \in Nat

VARIABLES
  opt,         \* --no-open, --keep and --timeout
  main,        \* where serve_and_open is
  rc,          \* its exit code
  telling,     \* tabs whose beacon the server has to answer
  delivered,   \* the event that the beacon sets
  serving,     \* new requests are answered
  page,        \* what each tab is doing
  loads,       \* pages loaded so far
  interrupted, \* history: the user pressed Ctrl-C
  got          \* history: tabs that have had the whole trace

mainVars == <<main, rc, serving, interrupted>>
pageVars == <<page, loads, got>>
openVars == <<opt, mainVars, telling, delivered, pageVars>>

PortTaken == 2
TimedOut == 1
Killed == 130      \* the interpreter's, on a KeyboardInterrupt that nobody caught

Options == [open: BOOLEAN, keep: BOOLEAN, timeout: BOOLEAN]
Exited == main = "exited"

OpenInit ==
  /\ opt \in Options
  /\ main = "bind" /\ rc = 0 /\ serving = FALSE
  /\ telling = {} /\ delivered = FALSE
  /\ page = [p \in Pages |-> "away"] /\ loads = 0
  /\ interrupted = FALSE /\ got = {}

------------------------------------------------------------------------------
(* serve_and_open.                                                            *)
Go(place) == main' = place
BindPort ==
  /\ main = "bind"
  /\ \/ serving' = TRUE /\ Go("announce") /\ UNCHANGED rc
     \/ serving' = FALSE /\ Go("exited") /\ rc' = PortTaken
  /\ UNCHANGED <<opt, interrupted, telling, delivered, pageVars>>
AfterDeliveryStop == "stop"
AfterDelivery == IF opt.keep THEN "keep" ELSE "stop"
Announce ==
  /\ main = "announce"
  /\ Go(IF opt.open THEN "wait" ELSE AfterDelivery)
  /\ UNCHANGED <<opt, rc, serving, interrupted, telling, delivered, pageVars>>
SeesDelivery ==
  /\ main = "wait" /\ delivered
  /\ Go(AfterDelivery)
  /\ UNCHANGED <<opt, rc, serving, interrupted, telling, delivered, pageVars>>
TimesOut ==
  /\ main = "wait" /\ opt.timeout /\ ~delivered
  /\ rc' = TimedOut
  /\ Go(AfterDelivery)
  /\ UNCHANGED <<opt, serving, interrupted, telling, delivered, pageVars>>
\* Ctrl-C: caught while main waits, the end of the process elsewhere.
Interrupt ==
  /\ main \notin {"bind", "exited"}
  /\ interrupted' = TRUE
  /\ IF main \in {"wait", "keep"}
     THEN Go("stop") /\ UNCHANGED <<rc, serving>>
     ELSE Go("exited") /\ rc' = Killed /\ serving' = FALSE
  /\ UNCHANGED <<opt, telling, delivered, pageVars>>
Shutdown ==
  /\ main = "stop"
  /\ serving' = FALSE
  /\ Go("closed")
  /\ UNCHANGED <<opt, rc, interrupted, telling, delivered, pageVars>>
Return ==
  /\ main = "closed"
  /\ Go("exited")
  /\ UNCHANGED <<opt, rc, serving, interrupted, telling, delivered, pageVars>>

\* do_GET on the beacon's path: the answer, then the event. The answer of a page that is
\* gone may raise, and then the event is not set.
Replies(p) == p \in telling /\ ~Exited /\ telling' = telling \ {p}
BeaconToWaiter(p) ==
  /\ Replies(p)
  /\ delivered' = (main = "wait")
  /\ UNCHANGED <<opt, mainVars, pageVars>>
Beacon(p) ==
  /\ Replies(p)
  /\ delivered' = TRUE
  /\ UNCHANGED <<opt, mainVars, pageVars>>
BeaconFails(p) ==
  /\ Replies(p)
  /\ page[p] # "done"
  /\ UNCHANGED <<opt, mainVars, delivered, pageVars>>

------------------------------------------------------------------------------
(* A tab loads the page, whose script fetches the trace and tells the server. *)
(* A request that the server no longer takes fails, and so does one that a    *)
(* handler is answering when the process ends. The user may load the page     *)
(* again in the same tab, or close the tab, at any time.                      *)
Shows(p, now) == page' = [page EXCEPT ![p] = now]
Load(p) ==
  /\ serving /\ loads < MaxLoads
  /\ loads' = loads + 1
  /\ Shows(p, "page")
  /\ UNCHANGED <<opt, mainVars, telling, delivered, got>>
CloseTab(p) ==
  /\ page[p] # "away"
  /\ Shows(p, "away")
  /\ UNCHANGED <<opt, mainVars, telling, delivered, loads, got>>
FetchDelivers(p) ==
  /\ page[p] = "page"
  /\ Shows(p, IF serving THEN "fetching" ELSE "failed")
  /\ delivered' = (delivered \/ serving)
  /\ UNCHANGED <<opt, mainVars, telling, loads, got>>
Fetch(p) ==
  /\ page[p] = "page"
  /\ Shows(p, IF serving THEN "fetching" ELSE "failed")
  /\ UNCHANGED <<opt, mainVars, telling, delivered, loads, got>>
HasTrace(p) ==
  /\ page[p] = "fetching" /\ ~Exited
  /\ Shows(p, "fetched")
  /\ got' = got \union {p}
  /\ UNCHANGED <<opt, mainVars, telling, delivered, loads>>
CutOff(p) ==
  /\ page[p] = "fetching" /\ Exited
  /\ Shows(p, "failed")
  /\ UNCHANGED <<opt, mainVars, telling, delivered, loads, got>>
Tell(p) ==
  /\ page[p] = "fetched"
  /\ telling' = IF serving THEN telling \union {p} ELSE telling
  /\ Shows(p, "done")
  /\ UNCHANGED <<opt, mainVars, delivered, loads, got>>

MainThread == BindPort \/ Announce \/ SeesDelivery \/ Shutdown \/ Return
Script(p) == Fetch(p) \/ HasTrace(p) \/ CutOff(p) \/ Tell(p)
Handler(p) == Beacon(p) \/ BeaconFails(p)
OpenNext ==
  \/ MainThread \/ TimesOut \/ Interrupt
  \/ \E p \in Pages: Load(p) \/ CloseTab(p) \/ Script(p) \/ Handler(p)
OpenSpec == OpenInit /\ [][OpenNext]_openVars
(* Both of main's and the server's threads are scheduled, the timeout comes,  *)
(* and a browser goes on with a script. No user has to load or close a page   *)
(* or press Ctrl-C.                                                           *)
OpenFairness ==
  /\ WF_openVars(MainThread) /\ WF_openVars(TimesOut)
  /\ \A p \in Pages: WF_openVars(Script(p)) /\ WF_openVars(Handler(p))
FairOpenSpec == OpenSpec /\ OpenFairness

------------------------------------------------------------------------------
(* Types; requests are taken only between the binding and the shutdown.       *)
OpenTypeOK ==
  /\ opt \in Options
  /\ main \in {"bind", "announce", "wait", "keep", "stop", "closed", "exited"}
  /\ rc \in {0, PortTaken, TimedOut, Killed}
  /\ telling \subseteq Pages /\ delivered \in BOOLEAN
  /\ serving \in BOOLEAN /\ interrupted \in BOOLEAN
  /\ page \in [Pages -> {"away", "page", "fetching", "fetched", "done", "failed"}]
  /\ loads \in 0..MaxLoads
  /\ got \subseteq Pages
  /\ serving => main \notin {"bind", "closed", "exited"}

(* Exit code 0 after the browser was opened means that a tab has had the      *)
(* whole trace, or that the user gave up: serve_and_open does not take the    *)
(* start of the download for its end.                                         *)
ZeroMeansFetched ==
  Exited /\ rc = 0 /\ opt.open /\ ~interrupted => got # {}

(* Without --keep the process ends at the timeout when there is one, and once *)
(* a page that stays has reported: the beacon is not missed, however the      *)
(* handler's thread and main interleave. Nothing is said of --no-open: the    *)
(* code asks the user to open the URL (252) and ends at once all the same     *)
(* (261, 277), though it "exits once the host page has fetched" (36-37).      *)
ServerStops ==
  /\ opt.open /\ ~opt.keep /\ opt.timeout ~> Exited
  /\ \A p \in Pages:
       opt.open /\ ~opt.keep /\ p \in telling ~> Exited \/ page[p] # "done"

(* With --keep a page that is loaded, again or late, gets the trace, whatever *)
(* was delivered or timed out before; only Ctrl-C ends that, or the user who  *)
(* closes the page.                                                           *)
KeptPagesServed ==
  \A p \in Pages:
    opt.keep /\ page[p] = "page" ~> page[p] \in {"fetched", "away"} \/ interrupted

(* The server lives for as long as it is needed, and no longer.               *)
ServedAsNeeded == ServerStops /\ KeptPagesServed
=============================================================================
