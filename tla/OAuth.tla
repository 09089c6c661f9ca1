--------------------------------- MODULE OAuth ---------------------------------
(***************************************************************************)
(* Tokens of HTTP backends (src/src/oauth): the authorization code flow    *)
(* with PKCE and its callback server, the token store with its encryption  *)
(* key, and the polling of the device flow.                                *)
(*                                                                         *)
(* Every backend's flow runs in its own task.  The callback port is the    *)
(* same for all backends that do not configure one, the store is one file  *)
(* and the key one entry of the keyring.                                   *)
(***************************************************************************)
EXTENDS Naturals, FiniteSets

CONSTANTS Sites,       \* the backends with OAuth
          MaxFlows,    \* bound: flows that are started
          Lifetime,    \* device flow: expires_in
          Interval     \* device flow: the interval of the server, in the same unit

ASSUME OAuthAssumption ==
    /\ MaxFlows \in Nat
    /\ Lifetime \in Nat \ {0} /\ Interval \in Nat \ {0}
    /\ {"none", "error"} \cap Sites = {}

VARIABLES
    together,  \* whether flows of several backends overlap in this behaviour
    flow,      \* every flow: where it is, the code it got, the key it encrypts with, its copy of
               \* the store, and whether it renews a token
    flows,
    browser,   \* the authorization pages that are open
    port,      \* the flow whose callback server is bound, "none" if there is none
    outcome,   \* what a callback server was told
    keyring,   \* the key in the keyring, "none" at first
    store,     \* the token file: whole or being written, and its tokens
    lasting,   \* the backends whose token was stored
    device     \* the device flow

oauthVars == <<together, flow, flows, browser, port, outcome, keyring, store, lasting, device>>

NoFlow == [pc |-> "idle", code |-> "none", key |-> "none", copy |-> {}, renews |-> FALSE]
Busy == {s \in Sites : flow[s].pc # "idle"}
None == "none"

OAuthTypeOK ==
    /\ \A s \in Sites : flow[s].pc \in {"idle", "look", "refresh", "bind", "wait", "exchange",
                                        "load", "key", "truncate", "write"}
    /\ port \in Sites \cup {None} /\ keyring \in Sites \cup {None}
    /\ store.tokens \subseteq [of : Sites, for : Sites, key : Sites]
    /\ browser \subseteq Sites /\ lasting \subseteq Sites

OAuthInit ==
    /\ together \in BOOLEAN
    /\ flow = [s \in Sites |-> NoFlow] /\ flows = 0 /\ browser = {} /\ port = None
    /\ outcome = [s \in Sites |-> None]
    /\ keyring = None /\ store = [whole |-> TRUE, tokens |-> {}] /\ lasting = {}
    /\ device = [pc |-> "idle", now |-> 0, interval |-> Interval, token |-> FALSE]

Go(s, pc) == flow' = [flow EXCEPT ![s].pc = pc]
StoreAside == UNCHANGED <<keyring, store, lasting>>
PortAside == UNCHANGED <<browser, port, outcome>>

-----------------------------------------------------------------------------
(* start() of a backend: the store, a refresh, or the whole flow.          *)

BeginFlow(s) ==
    /\ flow[s].pc = "idle" /\ device.pc = "idle" /\ flows < MaxFlows /\ (together \/ Busy = {})
    /\ flows' = flows + 1 /\ Go(s, "look")
    /\ PortAside /\ StoreAside /\ UNCHANGED device

\* get(): a file that does not parse, or a token under another key, counts as no token.
Readable(s) == \A t \in store.tokens : t.for = s => t.key = keyring
LookUpToken(s) ==
    /\ flow[s].pc = "look"
    /\ \/ /\ store.whole /\ Readable(s) /\ \E t \in store.tokens : t.for = s
          /\ \E pc \in {"idle", "refresh"} : Go(s, pc)
       \/ Go(s, "bind")
    /\ UNCHANGED flows /\ PortAside /\ StoreAside /\ UNCHANGED device

\* A refreshed token keeps the old refresh token when the server sends none; when the
\* refresh fails the whole flow follows.
Refresh(s) ==
    /\ flow[s].pc = "refresh"
    /\ \/ flow' = [flow EXCEPT ![s].pc = "load", ![s].code = s, ![s].renews = TRUE]
       \/ Go(s, "bind")
    /\ UNCHANGED flows /\ PortAside /\ StoreAside /\ UNCHANGED device

\* The browser is opened before the port is bound; a port that is taken ends the task.
OpenAndBind(s) ==
    /\ flow[s].pc = "bind"
    /\ browser' = browser \cup {s}
    /\ IF port = None THEN port' = s /\ Go(s, "wait") ELSE Go(s, "idle") /\ UNCHANGED port
    /\ outcome' = [outcome EXCEPT ![s] = None]
    /\ UNCHANGED flows /\ StoreAside /\ UNCHANGED device

\* The user's answer goes to whoever owns the port by now: a code, an error, or a
\* redirect without either, which leaves the server waiting.
HandleCallback(s) ==
    /\ s \in browser /\ browser' = browser \ {s}
    /\ IF port = None THEN UNCHANGED outcome
       ELSE \E said \in {s, "error", None} :
              outcome' = IF said = None THEN outcome ELSE [outcome EXCEPT ![port] = said]
    /\ UNCHANGED <<flow, flows, port, device>> /\ StoreAside

\* A second redirect may have overwritten the first one.
TakeOutcome(s) ==
    /\ flow[s].pc = "wait" /\ outcome[s] # None
    /\ flow' = [flow EXCEPT ![s].pc = IF outcome[s] = "error" THEN "idle" ELSE "exchange", ![s].code = outcome[s]]
    /\ UNCHANGED <<flows, browser, port, outcome, device>> /\ StoreAside

\* The server looks by itself for the outcome, up to 100 ms later.
CloseServer ==
    /\ port # None /\ outcome[port] # None
    /\ port' = None
    /\ UNCHANGED <<flow, flows, browser, outcome, device>> /\ StoreAside

\* The token endpoint accepts a code with the verifier of the challenge it was
\* issued for.
Exchange(s) ==
    /\ flow[s].pc = "exchange"
    /\ \/ flow[s].code = s /\ Go(s, "load")
       \/ Go(s, "idle")
    /\ UNCHANGED flows /\ PortAside /\ StoreAside /\ UNCHANGED device

-----------------------------------------------------------------------------
(* store(): load, encrypt, insert, write.                                  *)

\* A file that does not parse fails the start; after a refresh the whole flow follows.
LoadStore(s) ==
    /\ flow[s].pc = "load"
    /\ flow' = [flow EXCEPT ![s] =
         IF store.whole THEN [@ EXCEPT !.pc = "key", !.copy = store.tokens, !.key = keyring]
         ELSE IF @.renews THEN [NoFlow EXCEPT !.pc = "bind"] ELSE NoFlow]
    /\ UNCHANGED flows /\ PortAside /\ StoreAside /\ UNCHANGED device

\* get_or_create_key(): a task that found no key makes one, whatever is there by now.
UseKey(s) ==
    /\ flow[s].pc = "key"
    /\ LET key == IF flow[s].key = None THEN s ELSE flow[s].key IN
       /\ keyring' = IF flow[s].key = None THEN s ELSE keyring
       /\ flow' = [flow EXCEPT ![s].pc = "truncate", ![s].key = key,
                               ![s].copy = {t \in @ : t.for # s} \cup {[of |-> flow[s].code, for |-> s, key |-> key]}]
    /\ UNCHANGED <<flows, store, lasting, device>> /\ PortAside

Truncate(s) ==
    /\ flow[s].pc = "truncate" /\ Go(s, "write")
    /\ store' = [whole |-> FALSE, tokens |-> {}]
    /\ UNCHANGED <<flows, keyring, lasting, device>> /\ PortAside

\* Mutant: the file holds the new token only.
WriteAlone(s) ==
    /\ flow[s].pc = "write" /\ flow' = [flow EXCEPT ![s] = NoFlow]
    /\ store' = [whole |-> TRUE, tokens |-> {t \in flow[s].copy : t.for = s}]
    /\ lasting' = lasting \cup {s}
    /\ UNCHANGED <<flows, keyring, device>> /\ PortAside

Write(s) ==
    /\ flow[s].pc = "write" /\ flow' = [flow EXCEPT ![s] = NoFlow]
    /\ store' = [whole |-> TRUE, tokens |-> flow[s].copy]
    /\ lasting' = lasting \cup {s}
    /\ UNCHANGED <<flows, keyring, device>> /\ PortAside

-----------------------------------------------------------------------------
(* poll_for_token(): the expiry is looked at before the sleep.             *)

DeviceStep(d) == device' = d /\ UNCHANGED <<flow, flows, browser, port, outcome, keyring, store, lasting>>

\* The device flow shares nothing with the others and is looked at alone.
BeginDevice == device.pc = "idle" /\ flows = 0 /\ DeviceStep([device EXCEPT !.pc = "check"])
CheckExpiry ==
    /\ device.pc = "check"
    /\ DeviceStep([device EXCEPT !.pc = IF device.now >= Lifetime THEN "failed" ELSE "sleep"])
SleepInterval ==
    /\ device.pc = "sleep"
    /\ DeviceStep([device EXCEPT !.pc = "poll", !.now = @ + device.interval])
\* Pending answers are read only from a successful response; others end the flow.
Poll ==
    /\ device.pc = "poll"
    /\ \/ DeviceStep([device EXCEPT !.pc = "done", !.token = TRUE])
       \/ DeviceStep([device EXCEPT !.pc = "check"])
       \/ DeviceStep([device EXCEPT !.pc = "check", !.interval = @ + 5])
       \/ DeviceStep([device EXCEPT !.pc = "failed"])

-----------------------------------------------------------------------------

FlowNext(s) ==
    \/ BeginFlow(s) \/ LookUpToken(s) \/ Refresh(s) \/ OpenAndBind(s) \/ HandleCallback(s) \/ TakeOutcome(s)
    \/ Exchange(s) \/ LoadStore(s) \/ UseKey(s) \/ Truncate(s) \/ Write(s)
DeviceNext == BeginDevice \/ CheckExpiry \/ SleepInterval \/ Poll

OAuthNext == ((\E s \in Sites : FlowNext(s)) \/ CloseServer \/ DeviceNext) /\ UNCHANGED together
OAuthSpec == OAuthInit /\ [][OAuthNext]_oauthVars

-----------------------------------------------------------------------------
(* Properties.                                                             *)

\* However flows overlap at the one callback port, a token is stored for the backend
\* whose user granted it: a code that reached another flow's server is of no use
\* there.  The device flow stops polling one interval after the code has expired.
TokensBelong ==
    /\ \A t \in store.tokens : t.of = t.for
    /\ \A s \in Sites : \A t \in flow[s].copy : t.of = t.for
    /\ device.now < Lifetime + device.interval

\* Flows that follow each other lose no token: whatever was stored is in the file and
\* can be decrypted, whenever the file is whole.
TokensKept ==
    ~together /\ store.whole =>
        \A s \in lasting : \E t \in store.tokens : t.for = s /\ t.key = keyring

\* Both, whatever order the flows of all backends take.
TokensSafe == OAuthTypeOK /\ TokensBelong /\ TokensKept

=============================================================================
