------------------------- MODULE BaseWalletProvider -------------------------
(***************************************************************************)
(* The connection state every wallet provider keeps                        *)
(* (frontend/src/providers/BaseWalletProvider.tsx): isConnected and        *)
(* currentAccount, changed only through setConnected, setDisconnected and  *)
(* setAccountChanged.  The events these emit go to listeners of the React  *)
(* context, which is not in this repository; emitting is left out.         *)
(***************************************************************************)
CONSTANTS
    Accounts,   \* wallet addresses
    NULL

VARIABLES
    isConnected,
    currentAccount

SetConnected(a) ==
    /\ isConnected' = TRUE
    /\ currentAccount' = a

SetDisconnected ==
    /\ isConnected' = FALSE
    /\ currentAccount' = NULL

SetAccountChanged(a) ==
    /\ currentAccount' = a
    /\ UNCHANGED isConnected

ConnectionTypeOK ==
    /\ isConnected \in BOOLEAN
    /\ currentAccount \in Accounts \cup {NULL}
=============================================================================
