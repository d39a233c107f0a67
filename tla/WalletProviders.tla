--------------------------- MODULE WalletProviders ---------------------------
(***************************************************************************)
(* The wallet providers of the page, as WalletFactory                      *)
(* (frontend/src/providers/WalletFactory.ts) makes them: its constructor   *)
(* registers MetaMaskProvider and StellarWalletProvider, and               *)
(* getAllProviders builds one fresh instance of each registered type.      *)
(* The two instances then run side by side: each keeps its own             *)
(* BaseWalletProvider state and follows its own extension, and the user    *)
(* may click connect and disconnect on either at any time.                 *)
(*                                                                         *)
(* Each provider is its module INSTANCEd with its variables renamed; a     *)
(* step of the page is a step of one provider that leaves the other alone. *)
(***************************************************************************)
EXTENDS Naturals

CONSTANTS
    Accounts,               \* wallet addresses, in either extension
    NULL,
    StellarMaxConnects,     \* bound on connect clicks on the Stellar provider
    MetaMaskMaxConnects     \* bound on connect clicks on the MetaMask provider

VARIABLES
    sConnected, sAccount, sInstalled, freighter, pollInterval, intervals,
    sConns, inflight, intent,
    mConnected, mAccount, mInstalled, mmAccount, regs, mConns

stellarPart == <<sConnected, sAccount, sInstalled, freighter, pollInterval,
                 intervals, sConns, inflight, intent>>
metaMaskPart == <<mConnected, mAccount, mInstalled, mmAccount, regs, mConns>>
walletVars == <<stellarPart, metaMaskPart>>

Stellar == INSTANCE StellarWalletProvider
               WITH isConnected <- sConnected, currentAccount <- sAccount,
                    installed <- sInstalled, conns <- sConns,
                    MaxConnects <- StellarMaxConnects

MetaMask == INSTANCE MetaMaskProvider
               WITH isConnected <- mConnected, currentAccount <- mAccount,
                    installed <- mInstalled, conns <- mConns,
                    MaxConnects <- MetaMaskMaxConnects

\* new WalletFactoryClass() registers both constructors, and getAllProviders
\* calls create(type), new Ctor(), once per registered type: two fresh,
\* disconnected providers.
WalletsInit == Stellar!StellarInit /\ MetaMask!MMInit

WalletsNext ==
    \/ Stellar!StellarNext /\ UNCHANGED metaMaskPart
    \/ MetaMask!MMNext /\ UNCHANGED stellarPart

\* Only the Stellar provider awaits extension calls and timers the code
\* relies on to make progress; MetaMask's steps are all the user's or the
\* extension's.
WalletsFairSpec ==
    WalletsInit /\ [][WalletsNext]_walletVars /\ Stellar!StellarFairness

WalletsSpec == WalletsInit /\ [][WalletsNext]_walletVars

-----------------------------------------------------------------------------
(* Properties                                                              *)

\* The Stellar provider's poller keeps it in step with Freighter while the
\* MetaMask provider changes beside it: a lock or account switch that stays
\* in place eventually reaches the provider.
ProviderTracksWallet == Stellar!ProviderTracksWallet

\* While connected, the MetaMask provider shows MetaMask's selected
\* account: switches and locks reach it through its accountsChanged
\* subscription, however often connect and disconnect were clicked.
ConnectedOnSelectedAccount == MetaMask!ConnectedOnSelectedAccount

\* Every running Stellar poller is the one _pollInterval holds, so
\* disconnect can stop it: a second connect must not leave an interval
\* nobody can clear.
NoLeakedPoller == Stellar!NoLeakedPoller

\* A disconnect click on the Stellar provider is not undone by a connect()
\* that was already waiting on the Freighter prompt.
DisconnectHonoured == Stellar!DisconnectHonoured

\* After disconnect() the MetaMask provider shows no account: a handler
\* left registered by an earlier connect must not set one.
AccountOnlyWhenConnected == MetaMask!AccountOnlyWhenConnected
=============================================================================
