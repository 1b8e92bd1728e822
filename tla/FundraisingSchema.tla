------------------------- MODULE FundraisingSchema --------------------------
(***************************************************************************)
(* What main of scripts/setup-schema.mjs provisions, in its order.  Of the *)
(* fields of one list, which are created alike, one stands for all.        *)
(***************************************************************************)
EXTENDS Sequences

\* findObjectByNameSingular of an object that comes with Twenty.
CoreObject(o) == [kind |-> "core", finds |-> <<o>>, makes |-> {}]

Object(o) == [kind |-> "object", finds |-> <<o>>, makes |-> {<<o>>}]

Field(o, f) == [kind |-> "field", finds |-> <<o, f>>, makes |-> {<<o, f>>}]

\* Twenty names the inverse field after targetFieldLabel.
Relation(o, f, target, inverse) ==
    [kind |-> "relation", finds |-> <<o, f>>,
     makes |-> {<<o, f>>, <<target, inverse>>}]

Appeal == <<Object("appeal"), Field("appeal", "goalAmount")>>

Gift == <<Object("gift"), Field("gift", "amount")>>

Rollups == <<CoreObject("person"), Field("person", "lifetimeGiftAmount"),
             CoreObject("company"), Field("company", "lifetimeGiftAmount")>>

Opportunity == <<CoreObject("opportunity"), Field("opportunity", "giftsCount")>>

Households == <<Field("person", "mailingAddress"),
                Object("household"), Field("household", "mailingAddress")>>

GiftStagings == <<Object("giftStaging"), Field("giftStaging", "giftBatchId")>>

GiftPayouts == <<Object("giftPayout"), Field("giftPayout", "status")>>

RecurringAgreements ==
    <<Object("recurringAgreement"), Field("recurringAgreement", "status")>>

SolicitationSnapshots ==
    <<Object("solicitationSnapshot"), Field("solicitationSnapshot", "countSolicited")>>

GiftRelations ==
    <<Relation("gift", "giftPayout", "giftPayout", "gifts"),
      Relation("gift", "donor", "person", "gifts"),
      Relation("gift", "company", "company", "gifts"),
      Relation("gift", "opportunity", "opportunity", "gifts"),
      Relation("gift", "appeal", "appeal", "gifts"),
      Relation("gift", "recurringAgreement", "recurringAgreement", "gifts")>>

StagingRelations ==
    <<Relation("giftStaging", "giftPayout", "giftPayout", "giftStagingRows"),
      Relation("giftStaging", "donor", "person", "giftStagingRows"),
      Relation("giftStaging", "company", "company", "giftStagingRows"),
      Relation("giftStaging", "opportunity", "opportunity", "giftStagingRows"),
      Relation("giftStaging", "appeal", "appeal", "giftStagingRows"),
      Relation("giftStaging", "recurringAgreement", "recurringAgreement",
               "giftStagingRows"),
      Relation("giftStaging", "gift", "gift", "giftStagingRows")>>

OtherRelations ==
    <<Relation("recurringAgreement", "donor", "person", "recurringAgreements"),
      Relation("solicitationSnapshot", "appeal", "appeal", "solicitationSnapshots"),
      Relation("household", "primaryContact", "person", "primaryHouseholds"),
      Relation("person", "household", "household", "members")>>

Main == Appeal \o Gift \o Rollups \o Opportunity \o Households \o GiftStagings
        \o GiftPayouts \o RecurringAgreements \o SolicitationSnapshots
        \o GiftRelations \o StagingRelations \o OtherRelations
=============================================================================
