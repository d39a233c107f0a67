------------------------ MODULE StellarWalletProvider ------------------------
(***************************************************************************)
(* StellarWalletProvider (frontend/src/providers/StellarWalletProvider.tsx)*)
(* over the Freighter extension.  connect awaits getPublicKey and          *)
(* getNetwork, then marks the provider connected and starts a 2 s          *)
(* setInterval poller, keeping only the newest handle in _pollInterval.    *)
(* Each poll awaits getAccount (isConnected, then getPublicKey) and        *)
(* disconnects when the wallet is gone or follows an account switch.       *)
(* disconnect clears the handle in _pollInterval and disconnects.          *)
(*                                                                         *)
(* Freighter itself is the environment: installed or not, and locked       *)
(* (NULL) or unlocked on one of Accounts, changing at any time.  A poll    *)
(* already in flight is not cancelled by clearInterval; one poll per       *)
(* interval is in flight at a time.                                        *)
(***************************************************************************)
EXTENDS BaseWalletProvider, Naturals, Sequences

CONSTANT MaxConnects    \* bound on the user's connect clicks

VARIABLES
    installed,      \* window.freighter is present
    freighter,      \* the extension's unlocked account, or NULL when locked
    pollInterval,   \* _pollInterval: the id of the newest interval, or 0
    intervals,      \* ids of intervals that have not been cleared
    conns,          \* conns[i]: the i-th connect() call
    inflight,       \* inflight[iv]: the poll of interval iv in flight, or NULL
    intent          \* history: the user's last click, "connect" or "disconnect"

stellarVars == <<isConnected, currentAccount, installed, freighter,
                 pollInterval, intervals, conns, inflight, intent>>

IntervalIds == 1..MaxConnects

\* The id setInterval returns next: one per interval ever started.
NextInterval == Len(SelectSeq(conns, LAMBDA c : c.pc = "done" /\ c.ok)) + 1

\* _stopPolling
StopPolling ==
    IF pollInterval # 0
    THEN /\ intervals' = intervals \ {pollInterval}
         /\ pollInterval' = 0
    ELSE UNCHANGED <<intervals, pollInterval>>

\* connect(): isAvailable, then the getPublicKey prompt.
ClickConnect ==
    /\ Len(conns) < MaxConnects
    /\ intent' = "connect"
    /\ \/ installed /\ conns' = Append(conns, [pc |-> "getKey", key |-> NULL, ok |-> FALSE])
       \/ ~installed /\ conns' = Append(conns, [pc |-> "done", key |-> NULL, ok |-> FALSE])
    /\ UNCHANGED <<isConnected, currentAccount, installed, freighter,
                   pollInterval, intervals, inflight>>

\* await getPublicKey(): no key (locked, or the prompt refused) ends connect
\* with success false.
ConnectGetKey(i) ==
    /\ conns[i].pc = "getKey"
    /\ \/ freighter = NULL /\ conns' = [conns EXCEPT ![i].pc = "done"]
       \/ /\ freighter # NULL
          /\ conns' = [conns EXCEPT ![i].pc = "getNetwork", ![i].key = freighter]
    /\ UNCHANGED <<isConnected, currentAccount, installed, freighter,
                   pollInterval, intervals, inflight, intent>>

\* Mutant: connect marks the provider connected without starting the poller.
ConnectFinishNoPolling(i) ==
    /\ conns[i].pc = "getNetwork"
    /\ SetConnected(conns[i].key)
    /\ conns' = [conns EXCEPT ![i].pc = "done", ![i].ok = TRUE]
    /\ UNCHANGED <<installed, freighter, inflight, intent, intervals, pollInterval>>

\* await _getNetwork() (never rejects), then setConnected and _startPolling,
\* which overwrites _pollInterval without clearing the interval it held.
ConnectFinish(i) ==
    /\ conns[i].pc = "getNetwork"
    /\ SetConnected(conns[i].key)
    /\ intervals' = intervals \cup {NextInterval}
    /\ pollInterval' = NextInterval
    /\ conns' = [conns EXCEPT ![i].pc = "done", ![i].ok = TRUE]
    /\ UNCHANGED <<installed, freighter, inflight, intent>>

\* disconnect(): _stopPolling, setDisconnected.
Disconnect ==
    /\ intent' = "disconnect"
    /\ StopPolling
    /\ SetDisconnected
    /\ UNCHANGED <<installed, freighter, conns, inflight>>

\* The timer of interval iv fires and its async callback starts getAccount.
PollFire(iv) ==
    /\ iv \in intervals
    /\ inflight[iv] = NULL
    /\ inflight' = [inflight EXCEPT ![iv] = "isConnected"]
    /\ UNCHANGED <<isConnected, currentAccount, installed, freighter,
                   pollInterval, intervals, conns, intent>>

\* The rest of the poll callback once getAccount returned acc.
PollDecide(iv, acc) ==
    /\ inflight' = [inflight EXCEPT ![iv] = NULL]
    /\ \/ /\ acc = NULL /\ isConnected
          /\ SetDisconnected
          /\ StopPolling
       \/ /\ acc # NULL /\ currentAccount # NULL /\ acc # currentAccount
          /\ SetAccountChanged(acc)
          /\ UNCHANGED <<pollInterval, intervals>>
       \/ /\ ~(acc = NULL /\ isConnected)
          /\ ~(acc # NULL /\ currentAccount # NULL /\ acc # currentAccount)
          /\ UNCHANGED <<isConnected, currentAccount, pollInterval, intervals>>

\* getAccount: await isConnected(); false returns null.
PollIsConnected(iv) ==
    /\ inflight[iv] = "isConnected"
    /\ \/ freighter = NULL /\ PollDecide(iv, NULL)
       \/ freighter # NULL /\ inflight' = [inflight EXCEPT ![iv] = "getKey"]
                           /\ UNCHANGED <<isConnected, currentAccount,
                                          pollInterval, intervals>>
    /\ UNCHANGED <<installed, freighter, conns, intent>>

\* getAccount: await getPublicKey(); the account it names, or null.
PollGetKey(iv) ==
    /\ inflight[iv] = "getKey"
    /\ PollDecide(iv, freighter)
    /\ UNCHANGED <<installed, freighter, conns, intent>>

\* The user locks, unlocks or switches account in Freighter.
FreighterChange ==
    /\ installed
    /\ \E a \in (Accounts \cup {NULL}) \ {freighter} : freighter' = a
    /\ UNCHANGED <<isConnected, currentAccount, installed, pollInterval,
                   intervals, conns, inflight, intent>>

StellarInit ==
    /\ isConnected = FALSE
    /\ currentAccount = NULL
    /\ installed \in BOOLEAN
    /\ freighter \in Accounts \cup {NULL}
    /\ pollInterval = 0
    /\ intervals = {}
    /\ conns = << >>
    /\ inflight = [iv \in IntervalIds |-> NULL]
    /\ intent = "disconnect"

ConnectStep(i) == ConnectGetKey(i) \/ ConnectFinish(i)
PollStep(iv) == PollFire(iv) \/ PollIsConnected(iv) \/ PollGetKey(iv)

StellarNext ==
    \/ ClickConnect \/ Disconnect \/ FreighterChange
    \/ \E i \in DOMAIN conns : ConnectStep(i)
    \/ \E iv \in IntervalIds : PollStep(iv)

\* Awaited extension calls return and setInterval timers keep firing; the
\* user's clicks and the wallet's changes are not forced.
StellarFairness ==
    /\ \A i \in 1..MaxConnects : WF_stellarVars(i \in DOMAIN conns /\ ConnectStep(i))
    /\ \A iv \in IntervalIds : WF_stellarVars(PollStep(iv))

StellarSpec == StellarInit /\ [][StellarNext]_stellarVars
StellarFairSpec == StellarSpec /\ StellarFairness

-----------------------------------------------------------------------------
(* Properties                                                              *)

StellarTypeOK ==
    /\ ConnectionTypeOK
    /\ installed \in BOOLEAN
    /\ freighter \in Accounts \cup {NULL}
    /\ pollInterval \in {0} \cup IntervalIds
    /\ intervals \subseteq IntervalIds
    /\ inflight \in [IntervalIds -> {NULL, "isConnected", "getKey"}]
    /\ intent \in {"connect", "disconnect"}

\* Every running poller is the one _pollInterval holds, so disconnect can
\* stop it: a second connect must not leave an interval nobody can clear.
NoLeakedPoller == intervals \subseteq {pollInterval}

\* A disconnect click is not undone by a connect() that was already waiting
\* on the Freighter prompt.
DisconnectHonoured == isConnected => intent = "connect"

\* The poller keeps the provider in step with Freighter: while the wallet
\* stays locked (a = NULL) the provider ends disconnected, and while it stays
\* on account a the provider ends on a.
ProviderTracksWallet ==
    \A a \in Accounts \cup {NULL} :
        (isConnected /\ freighter = a /\ currentAccount # a)
            ~> (~isConnected \/ freighter # a \/ currentAccount = a)
=============================================================================
