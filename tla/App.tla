-------------------------------- MODULE App --------------------------------
(***************************************************************************)
(* The components around bookings and listings: chat, notifications,       *)
(* addresses, places, service areas, promo codes and the provider panel.   *)
(* They share no row, so a behaviour is one of one of them (part).         *)
(***************************************************************************)
EXTENDS Naturals

CONSTANTS
    People, ChatSlots, MaxMessages,
    Owners, Handsets, NoticeSlots, MaxNotices,
    Customers, AddressSlots, MaxAddresses,
    PlaceIds, Points, Answers, Kinds, Lookups,
    Areas, Names, Pincodes, Settings, AreaSlots,
    Promos, Words, LastDay, Admins,
    Sellers, Applications, PanelSlots,
    None

VARIABLES
    part,
    threads, messages, screen, chatReq, beside, lost,
    enabled, notices, devices, live, noticeReq, holder, due, pushed, strays, asked,
    address, addressReq,
    cache, look,
    area, areaReq,
    promo, promoReq, today,
    profile, panelReq, applied, duty

C == INSTANCE Chat WITH Users <- People, Requests <- ChatSlots, req <- chatReq

N == INSTANCE Notifications WITH
        Users <- Owners, Tokens <- Handsets, Requests <- NoticeSlots, Nobody <- None, req <- noticeReq

L == INSTANCE Addresses WITH Users <- Customers, Requests <- AddressSlots, Nobody <- None, req <- addressReq

G == INSTANCE Places WITH Ids <- PlaceIds, Nowhere <- None

S == INSTANCE ServiceAreas WITH Requests <- AreaSlots, Unmapped <- None, NoArea <- None, req <- areaReq

P == INSTANCE PromoCodes WITH NoPromo <- None, req <- promoReq

V == INSTANCE ProviderPanel WITH
        Requests <- PanelSlots, Blank <- None, Nobody <- None, req <- panelReq, asked <- duty

ASSUME AppAssumption ==
    /\ C!ChatAssumption /\ N!NotificationsAssumption /\ L!AddressesAssumption /\ G!PlacesAssumption
    /\ S!AreasAssumption /\ P!PromoAssumption /\ V!PanelAssumption

chatVars == <<threads, messages, screen, chatReq, beside, lost>>
noticeVars == <<enabled, notices, devices, live, noticeReq, holder, due, pushed, strays, asked>>
addressVars == <<address, addressReq>>
placeVars == <<cache, look>>
areaVars == <<area, areaReq>>
promoVars == <<promo, promoReq, today>>
panelVars == <<profile, panelReq, applied, duty>>
officeVars == <<areaVars, promoVars, panelVars>>
vars == <<part, chatVars, noticeVars, addressVars, placeVars, officeVars>>

Init ==
    /\ part \in {"chat", "notices", "addresses", "places", "areas", "promos", "panel"}
    /\ C!Init /\ N!Init /\ L!Init /\ G!Init /\ S!Init /\ P!Init /\ V!Init

OfficeStep ==
    \/ part = "areas" /\ S!Next /\ UNCHANGED <<promoVars, panelVars>>
    \/ part = "promos" /\ P!Next /\ UNCHANGED <<areaVars, panelVars>>
    \/ part = "panel" /\ V!Next /\ UNCHANGED <<areaVars, promoVars>>

Next ==
    \/ part = "chat" /\ C!Next /\ UNCHANGED <<part, noticeVars, addressVars, placeVars, officeVars>>
    \/ part = "notices" /\ N!Next /\ UNCHANGED <<part, chatVars, addressVars, placeVars, officeVars>>
    \/ part = "addresses" /\ L!Next /\ UNCHANGED <<part, chatVars, noticeVars, placeVars, officeVars>>
    \/ part = "places" /\ G!Next /\ UNCHANGED <<part, chatVars, noticeVars, addressVars, officeVars>>
    \/ OfficeStep /\ UNCHANGED <<part, chatVars, noticeVars, addressVars, placeVars>>

Spec == Init /\ [][Next]_vars

\* Two accounts share one thread, also when both write first at once; what an
\* account is shown is of its own conversations, and only what it wrote is
\* outgoing; the badge is the sum of the inbox rows; and a message leaves it
\* unseen only between an opening's two statements, or with an opening that
\* marked it and was never answered (ChatRepository, ChatGateway, ChatService).
ChatReachesItsReader ==
    /\ C!TypeOK
    /\ C!OneThreadPerPair
    /\ C!ScreenIsTheReaders
    /\ C!BadgeIsTheInbox
    /\ C!UnseenIsUnread

\* A push only reaches a handset that the notification's user used while it was
\* waiting; a handset in use that FCM still knows stays registered to its user,
\* through failed sends and sign-outs elsewhere; and a notification is read
\* because its own user marked it after it was stored (PushService,
\* DeviceTokensRepository, NotificationsRepository).
PushFindsItsUser == N!TypeOK /\ N!PushWasTheirs /\ N!HandsetStaysReachable /\ N!ReadByItsUser

\* A user has one default address, however edits and removals cross, and a
\* booking starts from an address its customer still has, the default if there
\* is one (LocationsRepository).
DefaultIsOneAndTheirs == L!TypeOK /\ L!OneDefault /\ L!PrefillIsShown

\* A place returned is the one asked for, or one within the rounding of the
\* coordinates, whoever filled the cache; with Redis failing at any step a
\* lookup only fails after Google gave no answer; and a suggestion's type is the
\* finest level it names (PlacesService, CacheService, places.mapper).
PlaceIsTheOneAsked == G!TypeOK /\ G!AnswerIsOfThePlace /\ G!OnlyGoogleRefuses /\ G!TypeIsFinest

\* One edit at a time: an area's centre is of the place stored, or null, with
\* geocoding failing at any edit (AdminCatalogService.updateLocation).
CentreIsOfThePlace == S!TypeOK /\ S!CentreIsOfThePlace

\* One admin's edit never switches on a code that had expired on the day it
\* was checked (AdminCatalogService.updatePromoCode).
SwitchedOnIsValid == P!SwitchedOnIsValid

\* Once a seller was told an application is submitted, the profile holds one of
\* theirs, however the panel's own creation crossed it, and its duty flag is the
\* one the seller last set, through registrations and verdicts
\* (ProviderService, ProviderRepository).
PanelKeepsItsWord == V!TypeOK /\ V!ApplicationIsKept /\ V!DutyIsAsSet
=============================================================================
