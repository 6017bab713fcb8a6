------------------------------- MODULE Listings --------------------------------
(***************************************************************************)
(* A solution offered on the marketplace (src/src/tools/solution-publish.  *)
(* ts): its listing is drafted, submitted, published, priced and shown or  *)
(* hidden, while others change it too.                                     *)
(***************************************************************************)
EXTENDS Errand

VARIABLES
  listing,  \* the platform's record of it
  seller    \* the workspace's account for payments

listingVars == <<listing, seller>>

Listing == [is : {"none", "DRAFT", "PENDING_REVIEW", "PUBLISHED", "ARCHIVED"}, public : {"yes", "no"},
            price : 0 .. 1, carrier : {"none", "template", "source"}, mine : {"yes", "no"}]

ListingTypeOK == listing \in Listing /\ seller \in {"none", "account"}

NoListing == [is |-> "none", public |-> "no", price |-> 0, carrier |-> "none", mine |-> "yes"]

(* None; one of this account; or one that was seeded, which is nobody's.     *)
ListingInit ==
  /\ seller = "none"
  /\ listing \in {NoListing, [is |-> "PUBLISHED", public |-> "yes", price |-> 0, carrier |-> "template", mine |-> "no"]}
       \cup [is : {"DRAFT", "PUBLISHED"}, public : {"yes", "no"}, price : {0}, carrier : {"none", "source"}, mine : {"yes"}]

There == listing.is # "none"
Mine == There /\ listing.mine = "yes"

(* What the catalogue shows.                                                 *)
Live(l) == l.is = "PUBLISHED" /\ l.public = "yes"

(* --- reading ------------------------------------------------------------------*)

(* What a listing delivers is in a field of one name where it is asked for,  *)
(* and of another where it is returned.                                      *)
Returned(l) == CASE l.carrier = "template" -> {"journeyTemplateId"} [] l.carrier = "source" -> {"sourceArtifactId"} [] OTHER -> {}

(* Mutant: the field is read by the name it is asked for.                    *)
installabilityAsAsked(fields) == IF fields \cap {"journeyTemplateId", "sourceId"} # {} THEN "yes" ELSE "no"

installability(fields) == IF fields \cap {"journeyTemplateId", "sourceArtifactId", "sourceId"} # {} THEN "yes" ELSE "no"

Shows(l, is) == [is |-> is, installable |-> installability(Returned(l))]

ReadListing ==
  /\ \E tool \in {"get", "list"} : Begin([tool |-> tool, pc |-> IF tool = "get" THEN "catalogue" ELSE "rows", confirm |-> "no", seen |-> "no"])
  /\ UNCHANGED listingVars

Catalogue ==
  /\ At("get", "catalogue")
  /\ \/ Answered /\ Goto([call EXCEPT !.pc = "view", !.seen = IF Live(listing) THEN "yes" ELSE "no"])
     \/ Trouble /\ Return(Thrown)
  /\ UNCHANGED listingVars

(* The publisher's own view, or nothing when it is not theirs or not there.  *)
publisherView(then, otherwise) ==
  /\ call.pc = "view"
  /\ \/ Answered /\ (IF Mine THEN then ELSE otherwise)
     \/ Trouble /\ Return(Thrown)
  /\ UNCHANGED listingVars

GetView ==
  call.tool = "get" /\
  publisherView(Return(Shows(listing, "found")),
                Return(IF call.seen = "yes" THEN Shows(listing, "found") ELSE [is |-> "not found"]))

Rows ==
  /\ At("list", "rows")
  /\ \/ Answered /\ Return(IF Mine THEN Shows(listing, "found") ELSE [is |-> "not found"])
     \/ Trouble /\ Return(Thrown)
  /\ UNCHANGED listingVars

(* --- the lifecycle -------------------------------------------------------------*)

(* A draft is private.  A title is needed.                                   *)
Draft ==
  /\ ~There
  /\ \E source \in {"source", "none"}, title \in {"yes", "no"} :
       Begin([tool |-> "draft", pc |-> IF title = "yes" THEN "post" ELSE "untitled", confirm |-> "no", source |-> source])
  /\ UNCHANGED listingVars

PostDraft ==
  /\ UNCHANGED seller
  /\ LET made == [NoListing EXCEPT !.is = "DRAFT", !.carrier = call.source]
     IN \/ At("draft", "untitled") /\ Answered /\ Return([is |-> "TITLE_REQUIRED"]) /\ UNCHANGED listing
        \/ /\ At("draft", "post") /\ Answered
           /\ \/ listing' = made /\ Return(Shows(made, "created"))
              \/ UNCHANGED listing /\ Return([is |-> "VALIDATION_FAILED"])
        \/ At("draft", "post") /\ Trouble /\ Return(Thrown) /\ listing' \in {listing, made}

(* Submitting needs no confirmation, archiving and publishing do.            *)
Advance ==
  /\ There
  /\ \E tool \in {"submit", "archive", "publish"}, confirm \in {"yes", "no"} :
       Begin([tool |-> tool, confirm |-> confirm,
              pc |-> IF tool = "submit" \/ confirm = "yes" THEN "post" ELSE IF tool = "archive" THEN "unconfirmed" ELSE "view"])
  /\ UNCHANGED listingVars

Unconfirmed ==
  /\ At("archive", "unconfirmed") /\ Answered /\ Return([is |-> "CONFIRMATION_REQUIRED"])
  /\ UNCHANGED listingVars

PublishPreview ==
  call.tool = "publish" /\
  publisherView(Return(Shows(listing, "CONFIRMATION_REQUIRED")), Return([is |-> "CONFIRMATION_REQUIRED"]))

Post(tool, may, becomes) ==
  /\ At(tool, "post")
  /\ \/ /\ Answered
        /\ IF Mine /\ may THEN listing' \in becomes /\ Return([is |-> "done"]) ELSE UNCHANGED listing /\ Return(Thrown)
     \/ Trouble /\ Return(Thrown) /\ listing' \in {listing} \cup IF Mine /\ may THEN becomes ELSE {}
  /\ UNCHANGED seller

Submit == Post("submit", listing.is = "DRAFT", {[listing EXCEPT !.is = "PENDING_REVIEW"]})

Archive == Post("archive", TRUE, {[listing EXCEPT !.is = "ARCHIVED"]})

(* The audit may take its time, or refuse.                                   *)
Publish ==
  \/ Post("publish", listing.is \in {"DRAFT", "PENDING_REVIEW"},
          [is : {"PUBLISHED", "PENDING_REVIEW"}, public : {listing.public, "yes"}, price : {listing.price},
           carrier : {listing.carrier}, mine : {"yes"}])
  \/ At("publish", "post") /\ Mine /\ Answered /\ Return([is |-> "PUBLISH_REJECTED"]) /\ UNCHANGED listingVars

(* --- its price, and who sees it -------------------------------------------------*)

Price ==
  /\ There
  /\ \E confirm \in {"yes", "no"} : Begin([tool |-> "price", pc |-> "view", confirm |-> confirm, saw |-> "none"])
  /\ UNCHANGED listingVars

(* Mutant: what is hidden is not on sale.                                    *)
isLiveInCatalogue(l) == Live(l)

isLive(l) == l.is = "PUBLISHED"

PriceView ==
  call.tool = "price" /\
  publisherView(IF isLive(listing) /\ call.confirm = "no" THEN Return([is |-> "CONFIRMATION_REQUIRED"])
                ELSE Goto([call EXCEPT !.pc = "put", !.saw = listing.is]),
                Return([is |-> "NOT_THE_PUBLISHER"]))

Put(becomes) ==
  /\ call.pc = "put"
  /\ \/ Answered /\ listing' = becomes /\ Return([is |-> "done"])
     \/ Trouble /\ Return(Thrown) /\ listing' \in {listing, becomes}
  /\ UNCHANGED seller

PutPrice == call.tool = "price" /\ Put([listing EXCEPT !.price = 1 - @])

Visibility ==
  /\ There
  /\ \E mode \in {"private", "internal", "marketplace"}, confirm \in {"yes", "no"} :
       Begin([tool |-> "visibility", pc |-> IF mode = "internal" THEN "unsupported" ELSE "view", confirm |-> confirm, mode |-> mode])
  /\ UNCHANGED listingVars

Internal ==
  /\ At("visibility", "unsupported") /\ Answered /\ Return([is |-> "NOT_SUPPORTED"])
  /\ UNCHANGED listingVars

(* Mutant: a listing that is not published cannot be seen anyway.            *)
NeedsConfirmationOnceLive(l) == l.is = "PUBLISHED" /\ call.mode = "marketplace"

NeedsConfirmation(l) == call.mode = "marketplace"

VisibilityView ==
  call.tool = "visibility" /\
  publisherView(IF NeedsConfirmation(listing) /\ call.confirm = "no" THEN Return([is |-> "CONFIRMATION_REQUIRED"]) ELSE To("put"),
                Return([is |-> "NOT_THE_PUBLISHER"]))

(* Mutant: the mode is put as it was asked for.                              *)
PublicAsAsked(mode) == mode

Public(mode) == IF mode = "marketplace" THEN "yes" ELSE "no"

PutVisibility == call.tool = "visibility" /\ Put([listing EXCEPT !.public = Public(call.mode)])

(* --- the seller's account --------------------------------------------------------*)

SellerAccount ==
  /\ \E does \in {"status", "earnings", "onboard"}, confirm, urls \in {"yes", "no"} :
       /\ does # "onboard" => confirm = "no" /\ urls = "no"
       /\ Begin([tool |-> "seller", confirm |-> confirm, does |-> does,
                 pc |-> IF does = "onboard" /\ (confirm = "no" \/ urls = "no") THEN "refuse" ELSE does])
  /\ UNCHANGED listingVars

Seller ==
  /\ call.tool = "seller" /\ UNCHANGED listing
  /\ \/ At("seller", "refuse") /\ Answered /\ Return([is |-> "refused"]) /\ UNCHANGED seller
     \/ /\ call.pc \in {"status", "earnings"} /\ UNCHANGED seller
        /\ \/ Answered /\ Return([is |-> "read", connected |-> IF seller = "none" THEN "no" ELSE "yes"])
           \/ Trouble /\ Return(Thrown)
     \/ /\ At("seller", "onboard")
        /\ \/ Answered /\ seller' = "account" /\ Return([is |-> "started"])
           \/ Answered /\ UNCHANGED seller /\ Return([is |-> "STRIPE_NOT_CONFIGURED"])
           \/ Trouble /\ seller' \in {seller, "account"} /\ Return(Thrown)

(* Other sessions of the account, and the audit.                             *)
Changed ==
  /\ Mine /\ Moves
  /\ \/ \E is \in {"DRAFT", "PENDING_REVIEW", "PUBLISHED", "ARCHIVED"} \ {listing.is} : listing' = [listing EXCEPT !.is = is]
     \/ \E public \in {"yes", "no"} \ {listing.public} : listing' = [listing EXCEPT !.public = public]
  /\ UNCHANGED seller

ListingCall == ReadListing \/ Draft \/ Advance \/ Price \/ Visibility \/ SellerAccount
ListingStep ==
  \/ Catalogue \/ GetView \/ Rows \/ PostDraft \/ Unconfirmed \/ PublishPreview \/ Submit \/ Archive \/ Publish
  \/ PriceView \/ PutPrice \/ Internal \/ VisibilityView \/ PutVisibility \/ Seller

(* Nobody is offered a solution, and no account for payments is opened, by a *)
(* call that was not confirmed, whatever others do to the listing between    *)
(* the request that looks at it and the one that changes it.                 *)
(* swfte_solution_publish, _visibility and _seller_account.                  *)
OfferedIsConfirmed ==
  (moves' = moves /\ ((~Live(listing) /\ Live(listing')) \/ seller # seller')) => call.confirm = "yes"

(* What the buyers of a published solution are charged changes only in a     *)
(* call that was confirmed, or that read the listing before others published *)
(* it: the status is one request old, and the PUT carries nothing to compare *)
(* it with.  swfte_solution_pricing.                                         *)
RepricedIsConfirmed ==
  (moves' = moves /\ listing.is = "PUBLISHED" /\ listing'.price # listing.price)
    => (call.confirm = "yes" \/ call.saw # "PUBLISHED")

(* A solution is reported as installable exactly when its listing carries    *)
(* something to install, whichever of the two views was read, and which of   *)
(* the two fields carries it.  installability, swfte_solution_listing_get.   *)
InstallableIsTrue ==
  (said # None /\ "installable" \in DOMAIN said) => (said.installable = "yes" <=> listing.carrier # "none")

(* What a step may do to a listing, and say of it.                           *)
ListingsHold ==
  [][OfferedIsConfirmed /\ RepricedIsConfirmed /\ InstallableIsTrue' /\ ListingTypeOK']_<<errand, listingVars>>
================================================================================
