--------------------------- MODULE MetaMaskProvider ---------------------------
(***************************************************************************)
(* MetaMaskProvider (frontend/src/providers/MetaMaskProvider.tsx).         *)
(* connect awaits eth_requestAccounts, then subscribes its three handlers  *)
(* (accountsChanged, chainChanged, disconnect) with window.ethereum.on and *)
(* marks the provider connected.  disconnect removes each handler once     *)
(* with removeListener and marks the provider disconnected.                *)
(*                                                                         *)
(* window.ethereum is an EventEmitter: on() adds the same handler again    *)
(* each time it is called and removeListener() removes one registration,   *)
(* so the three handlers are registered regs times, always together.       *)
(* chainChanged only emits networkChanged, which changes no provider state, *)
(* and is left out.  MetaMask's selected account (NULL when locked or no   *)
(* account is exposed) is the environment and changes at any time.         *)
(***************************************************************************)
EXTENDS BaseWalletProvider, Naturals, Sequences

CONSTANT MaxConnects    \* bound on the user's connect clicks

VARIABLES
    installed,  \* window.ethereum.isMetaMask
    mmAccount,  \* MetaMask's selected account, or NULL
    regs,       \* how many times the handlers are registered on window.ethereum
    conns       \* conns[i]: "request" while eth_requestAccounts is pending, or "done"

mmVars == <<isConnected, currentAccount, installed, mmAccount, regs, conns>>

\* _accountChangeHandler, run once per registration (the runs after the
\* first change nothing more).
AccountChangeHandler(acc) ==
    IF regs > 0
    THEN IF acc = NULL THEN SetDisconnected ELSE SetAccountChanged(acc)
    ELSE UNCHANGED <<isConnected, currentAccount>>

\* connect(): isAvailable, then eth_requestAccounts.
ClickConnect ==
    /\ Len(conns) < MaxConnects
    /\ \/ installed /\ conns' = Append(conns, "request")
       \/ ~installed /\ conns' = Append(conns, "done")
    /\ UNCHANGED <<isConnected, currentAccount, installed, mmAccount, regs>>

\* Mutant: connect does not subscribe to MetaMask's events.
ConnectApprovedNoSubscribe(i) ==
    /\ conns[i] = "request"
    /\ \E a \in Accounts :
          /\ mmAccount' = a
          /\ SetConnected(a)
    /\ conns' = [conns EXCEPT ![i] = "done"]
    /\ UNCHANGED <<installed, regs>>

\* The user approves the prompt with account a (accounts[0]): the three
\* handlers are registered once more, then setConnected.
ConnectApproved(i) ==
    /\ conns[i] = "request"
    /\ \E a \in Accounts :
          /\ mmAccount' = a
          /\ SetConnected(a)
    /\ regs' = regs + 1
    /\ conns' = [conns EXCEPT ![i] = "done"]
    /\ UNCHANGED installed

\* The prompt is rejected (or returns no account): the catch emits an error.
ConnectRejected(i) ==
    /\ conns[i] = "request"
    /\ conns' = [conns EXCEPT ![i] = "done"]
    /\ UNCHANGED <<isConnected, currentAccount, installed, mmAccount, regs>>

\* disconnect(): one removeListener per handler, then setDisconnected.
Disconnect ==
    /\ regs' = IF regs > 0 THEN regs - 1 ELSE 0
    /\ SetDisconnected
    /\ UNCHANGED <<installed, mmAccount, conns>>

\* The user switches account or locks MetaMask: accountsChanged fires.
AccountsChanged ==
    /\ installed
    /\ \E acc \in (Accounts \cup {NULL}) \ {mmAccount} :
          /\ mmAccount' = acc
          /\ AccountChangeHandler(acc)
    /\ UNCHANGED <<installed, regs, conns>>

\* MetaMask loses its RPC connection: _disconnectHandler runs.
RpcDisconnect ==
    /\ installed
    /\ regs > 0
    /\ SetDisconnected
    /\ UNCHANGED <<installed, mmAccount, regs, conns>>

MMInit ==
    /\ isConnected = FALSE
    /\ currentAccount = NULL
    /\ installed \in BOOLEAN
    /\ mmAccount \in Accounts \cup {NULL}
    /\ regs = 0
    /\ conns = << >>

MMNext ==
    \/ ClickConnect \/ Disconnect \/ AccountsChanged \/ RpcDisconnect
    \/ \E i \in DOMAIN conns : ConnectApproved(i) \/ ConnectRejected(i)

MMSpec == MMInit /\ [][MMNext]_mmVars

-----------------------------------------------------------------------------
(* Properties                                                              *)

\* After disconnect() the provider shows no account: a handler left
\* registered by an earlier connect must not set one.
AccountOnlyWhenConnected == currentAccount # NULL => isConnected

\* While connected, the provider shows the account MetaMask has selected:
\* switches and locks reach it through the accountsChanged subscription.
ConnectedOnSelectedAccount == isConnected => currentAccount = mmAccount
=============================================================================
