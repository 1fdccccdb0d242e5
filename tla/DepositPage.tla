----------------------------- MODULE DepositPage -----------------------------
(***************************************************************************)
(* The deposit page of the front-end (deposit-modal.tsx): an asset and a   *)
(* network are chosen by a link, by default or by the user, an effect gets *)
(* the deposit address of what is chosen, and the address of a             *)
(* confidential treasury is shown once the user acknowledged that it is    *)
(* for a single use.  Whenever the treasury's assets are fetched again,    *)
(* the default is chosen again.                                            *)
(***************************************************************************)
EXTENDS Naturals, Sequences, FiniteSets, Absent

CONSTANTS
    ByName,        \* the assets of the bridge in the order of their names, Other last
    Other, Usdc,   \* two of them
    NetworksOf,    \* asset |-> its networks
    NearChain,     \* networks whose chain is NEAR, at most one of an asset
    NearMainnet,   \* the network of an asset that has none on NEAR: it bears the chain's name
    Portfolios,    \* what the treasury may hold, the most valuable first
    PrefillLinks,  \* the token and the network in the page's URL
    Everything,    \* a pause of all deposits
    MaxAddressRequests  \* bound: the last number at which the selection may change

BridgeAssets == {ByName[i] : i \in DOMAIN ByName}
BridgeNetworks == UNION {NetworksOf[a] : a \in BridgeAssets}

VARIABLES
    treasuryKind, \* whether the treasury is confidential, and the user a guest of it
    prefill,      \* initialPrefillRef
    halted,       \* what the warnings pause: None, Everything or a network
    deposit,      \* the form, depositInfo, isLoadingAddress, the tab and the acknowledgement
    latest,       \* latestAddressRequestRef
    addressRequests, \* fetchDepositAddress in flight
    effectDue     \* the selection changed and its effect has not run

depositVars == <<treasuryKind, prefill, halted, deposit, latest, addressRequests, effectDue>>

TreasuryKinds == {k \in [confidential : BOOLEAN, guest : BOOLEAN] : k.guest => k.confidential}
NetworkAddresses == [network : BridgeNetworks, no : Nat]

DepositTypeOK ==
    /\ treasuryKind \in TreasuryKinds
    /\ prefill \in PrefillLinks
    /\ halted \in BridgeNetworks \cup {None, Everything}
    /\ deposit \in [asset : BridgeAssets \cup {None}, network : BridgeNetworks \cup {None},
                    chosenBy : {"page", "user"},  \* history
                    info : NetworkAddresses \cup {None}, loading : BOOLEAN,
                    source : {"public", "confidential"}, acknowledged : BOOLEAN,
                    agreed : NetworkAddresses \cup {None}]  \* history: what was acknowledged
    /\ latest \in Nat /\ effectDue \in BOOLEAN
    /\ addressRequests \subseteq NetworkAddresses

DepositInit ==
    /\ treasuryKind \in TreasuryKinds
    /\ prefill \in PrefillLinks
    /\ halted = None
    /\ deposit = [asset |-> None, network |-> None, chosenBy |-> "page", info |-> None,
                  loading |-> FALSE, source |-> "public", acknowledged |-> FALSE,
                  agreed |-> None]
    /\ latest = 0 /\ addressRequests = {} /\ effectDue = TRUE

-----------------------------------------------------------------------------
IsNetworkSelectionRestricted == treasuryKind.confidential /\ treasuryKind.guest

\* isConfidentialNearFallbackOnly: supportsPublicNearDepositSource is false of NearMainnet.
FallbackOnly(n) == treasuryKind.confidential /\ n = NearMainnet
IsDirectDeposit(n) == ~treasuryKind.confidential /\ n \in NearChain
CanSwitchSource(n) == treasuryKind.confidential /\ n \in NearChain /\ ~FallbackOnly(n)
ConfidentialSource(d) ==
    FallbackOnly(d.network) \/ (CanSwitchSource(d.network) /\ d.source = "confidential")

\* The treasury's own account, which takes no request.
OwnAddress(n) == [network |-> n, no |-> 0]

\* depositBlocked, displayDepositInfo and when it is rendered
BlockedBy(h) == h = Everything \/ (h # None /\ h = deposit.network)
DepositBlocked == BlockedBy(halted)
Displayed(d) == IF ConfidentialSource(d) THEN OwnAddress(d.network) ELSE d.info
SingleUseWarning(d) == treasuryKind.confidential /\ ~ConfidentialSource(d)
IsShown ==
    /\ Displayed(deposit) # None /\ ~DepositBlocked
    /\ ~deposit.loading \/ ConfidentialSource(deposit)
IsCopyable == IsShown /\ (SingleUseWarning(deposit) => deposit.acknowledged)

\* What the effects after a render make of d: the tab is one the network has,
\* and another address or warning is to be acknowledged anew.
Rendered(d) ==
    [d EXCEPT
        !.source = IF FallbackOnly(d.network) THEN "confidential"
                   ELSE IF CanSwitchSource(d.network) THEN @ ELSE "public",
        !.acknowledged = /\ @
                         /\ SingleUseWarning(d) = SingleUseWarning(deposit)
                         /\ Displayed(d) = Displayed(deposit)]

-----------------------------------------------------------------------------
\* formattedAssets: the treasury's own first, Other not for confidential ones
Formatted(mine) ==
    mine \o SelectSeq(ByName, LAMBDA a : /\ \A i \in DOMAIN mine : mine[i] # a
                                         /\ a = Other => ~treasuryKind.confidential)

\* A name is a network's own or that of its chain.
NamedBy(name) == IF name = NearMainnet THEN NearChain ELSE {name}
NetworksNamed(a, name) == NetworksOf[a] \cap NamedBy(name)

\* The asset the page chooses: of the link's token, else network; else USDC
\* of one's own, one's first, any USDC, the first.
TargetAsset(mine) ==
    LET all == Formatted(mine)
        With(name) == SelectSeq(all, LAMBDA a : NetworksNamed(a, name) # {})
    IN  Head(SelectSeq(all, LAMBDA a : a = prefill.token)
             \o With(prefill.token) \o With(prefill.network)
             \o SelectSeq(mine, LAMBDA a : a = Usdc) \o mine
             \o SelectSeq(all, LAMBDA a : a = Usdc) \o all)

OnlyNetwork(a) ==
    IF Cardinality(NetworksOf[a]) = 1 /\ ~IsNetworkSelectionRestricted
    THEN CHOOSE n \in NetworksOf[a] : TRUE ELSE None

TargetNetwork(a) ==
    IF NetworksNamed(a, prefill.network) # {}
    THEN CHOOSE n \in NetworksNamed(a, prefill.network) : TRUE
    ELSE IF NetworksNamed(a, prefill.token) # {}
    THEN CHOOSE n \in NetworksNamed(a, prefill.token) : TRUE
    ELSE OnlyNetwork(a)

\* The effect over the assets: when the page opens, and with each new list.
LoadAssets(mine) ==
    /\ ~effectDue /\ latest < MaxAddressRequests
    /\ LET a == TargetAsset(mine)
       IN  deposit' = Rendered([deposit EXCEPT !.asset = a, !.network = TargetNetwork(a),
                                               !.chosenBy = "page"])
    /\ effectDue' = TRUE
    /\ UNCHANGED <<treasuryKind, prefill, halted, latest, addressRequests>>

\* The buttons of the lists are disabled while all deposits are paused, but a
\* list opened before stays open.
MaySelect == ~effectDue /\ deposit.asset # None /\ latest < MaxAddressRequests

Selected(a, n, loading) ==
    /\ deposit' = Rendered([deposit EXCEPT !.asset = a, !.network = n, !.chosenBy = "user",
                                           !.info = None, !.loading = loading,
                                           !.source = "public"])
    /\ effectDue' = TRUE
    /\ UNCHANGED <<treasuryKind, prefill, halted, addressRequests>>

HandleAssetSelect(a) ==
    /\ MaySelect
    /\ a = Other => ~treasuryKind.confidential
    /\ Selected(a, OnlyNetwork(a), FALSE)
    /\ latest' = latest + 1

\* Mutant: the request in flight is not invalidated.
SelectKeepingRequest(n) ==
    /\ MaySelect /\ ~IsNetworkSelectionRestricted
    /\ Selected(deposit.asset, n, deposit.loading)
    /\ UNCHANGED latest

HandleNetworkSelect(n) ==
    /\ MaySelect /\ ~IsNetworkSelectionRestricted
    /\ Selected(deposit.asset, n, FALSE)
    /\ latest' = latest + 1

-----------------------------------------------------------------------------
(* The effect of the selection: nothing to fetch, the treasury's own       *)
(* address, or a request.                                                  *)
Invalidate ==
    /\ deposit.network = None \/ DepositBlocked
    /\ deposit' = Rendered([deposit EXCEPT !.info = None, !.loading = FALSE])
    /\ latest' = latest + 1 /\ UNCHANGED addressRequests

OfferOwnAccount ==
    /\ deposit.network # None /\ ~DepositBlocked /\ FallbackOnly(deposit.network)
    /\ deposit' = Rendered([deposit EXCEPT !.info = None, !.loading = FALSE])
    /\ UNCHANGED <<latest, addressRequests>>

ShowOwnAccount ==
    /\ deposit.network # None /\ ~DepositBlocked /\ IsDirectDeposit(deposit.network)
    /\ deposit' = Rendered([deposit EXCEPT !.info = OwnAddress(deposit.network)])
    /\ latest' = latest + 1 /\ UNCHANGED addressRequests

FetchAddress ==
    /\ deposit.network # None /\ ~DepositBlocked
    /\ ~FallbackOnly(deposit.network) /\ ~IsDirectDeposit(deposit.network)
    /\ deposit' = Rendered([deposit EXCEPT !.loading = TRUE])
    /\ latest' = latest + 1
    /\ addressRequests' = addressRequests \cup {[network |-> deposit.network, no |-> latest + 1]}

AddressEffect ==
    /\ effectDue /\ effectDue' = FALSE
    /\ Invalidate \/ OfferOwnAccount \/ ShowOwnAccount \/ FetchAddress
    /\ UNCHANGED <<treasuryKind, prefill, halted>>

\* Mutant: an answer is taken whatever was asked for since.
IsLatestAnyway(r) == r \in addressRequests
IsLatest(r) == r.no = latest

\* The answer is an address, or none: an error or an empty one.
AddressAnswer(r) ==
    /\ addressRequests' = addressRequests \ {r}
    /\ IF IsLatest(r)
       THEN \E info \in {r, None} :
                deposit' = Rendered([deposit EXCEPT !.info = info, !.loading = FALSE])
       ELSE UNCHANGED deposit
    /\ UNCHANGED <<treasuryKind, prefill, halted, latest, effectDue>>

AcknowledgeSingleUse ==
    /\ ~effectDue /\ IsShown /\ SingleUseWarning(deposit) /\ ~deposit.acknowledged
    /\ deposit' = [deposit EXCEPT !.acknowledged = TRUE, !.agreed = Displayed(deposit)]
    /\ UNCHANGED <<treasuryKind, prefill, halted, latest, addressRequests, effectDue>>

SwitchSource(source) ==
    /\ ~effectDue /\ IsShown /\ CanSwitchSource(deposit.network) /\ deposit.source # source
    /\ deposit' = Rendered([deposit EXCEPT !.source = source])
    /\ UNCHANGED <<treasuryKind, prefill, halted, latest, addressRequests, effectDue>>

\* The warnings are polled; the effect depends on whether they pause the selection.
PollWarnings(h) ==
    /\ ~effectDue /\ h # halted /\ latest < MaxAddressRequests
    /\ halted' = h
    /\ effectDue' = (BlockedBy(h) # DepositBlocked)
    /\ UNCHANGED <<treasuryKind, prefill, deposit, latest, addressRequests>>

DepositNext ==
    \/ AddressEffect
    \/ \E mine \in Portfolios : LoadAssets(mine)
    \/ \E a \in BridgeAssets : HandleAssetSelect(a)
    \/ \E n \in BridgeNetworks :
           deposit.asset # None /\ n \in NetworksOf[deposit.asset] /\ HandleNetworkSelect(n)
    \/ \E r \in addressRequests : AddressAnswer(r)
    \/ AcknowledgeSingleUse
    \/ \E source \in {"public", "confidential"} : SwitchSource(source)
    \/ \E h \in BridgeNetworks \cup {None, Everything} : PollWarnings(h)

DepositSpec == DepositInit /\ [][DepositNext]_depositVars

-----------------------------------------------------------------------------
(* An address that can be copied is one of the network on screen, however  *)
(* late the answers for other networks come, and of a confidential         *)
(* treasury the very one whose single use was acknowledged                 *)
(* (deposit-modal.tsx, fetchAddress and the acknowledgement).              *)
CopiedAddressIsSelections ==
    IsCopyable /\ ~effectDue =>
        LET address == Displayed(deposit)
        IN  /\ address.network = deposit.network
            /\ SingleUseWarning(deposit) => deposit.agreed = address

(* The skeleton in the place of the address is shown only while the latest *)
(* request is under way, so that its answer takes it away; what the page   *)
(* chose by itself on NEAR is the exception: ShowOwnAccount leaves         *)
(* isLoadingAddress as a request overtaken by LoadAssets left it.          *)
LoadingIsAwaited ==
    deposit.loading /\ ~effectDue =>
        \/ \E r \in addressRequests : IsLatest(r)
        \/ deposit.chosenBy = "page" /\ IsDirectDeposit(deposit.network)

(* The strengthening that makes both inductive: no request is of the       *)
(* future, the latest and what it brought are of the selection unless the  *)
(* page went to a network of the treasury's own account meanwhile, and the *)
(* user's choice of a direct network finds nothing loading.                *)
IsForm(d) ==
    DOMAIN d = {"asset", "network", "chosenBy", "info", "loading", "source", "acknowledged",
                "agreed"}
RequestsArePast ==
    latest \in Nat /\ \A r \in addressRequests : r.no \in Nat /\ r.no <= latest
LatestIsSelections ==
    \A r \in addressRequests :
        IsLatest(r) /\ ~effectDue => r.network = deposit.network \/ FallbackOnly(deposit.network)
InfoIsSelections ==
    ~effectDue /\ ~deposit.loading /\ deposit.info # None =>
        deposit.info.network = deposit.network \/ FallbackOnly(deposit.network)
AcknowledgedIsAgreed == deposit.acknowledged => deposit.agreed = Displayed(deposit)
ChosenIsNotLoading ==
    deposit.chosenBy # "page" /\ IsDirectDeposit(deposit.network) => ~deposit.loading
DepositInv ==
    /\ IsForm(deposit) /\ RequestsArePast /\ LatestIsSelections /\ InfoIsSelections
    /\ AcknowledgedIsAgreed /\ ChosenIsNotLoading /\ LoadingIsAwaited
=============================================================================
