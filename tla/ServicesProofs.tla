----------------------------- MODULE ServicesProofs -----------------------------
(***************************************************************************)
(* The components that hold still while another one works, taken together:  *)
(* a behaviour of them is a behaviour of each, so that whatever is proved   *)
(* of one component holds of all of them side by side.                      *)
(***************************************************************************)
EXTENDS MCServices, AccessProofs, CatalogueProofs, ConnectorProofs, StoreProofs

\* A step of the whole is a step of one component, and leaves the others alone.
LEMMA StepIsOfOne ==
  ASSUME [Next]_vars
  PROVE  /\ [LedgerNext]_ledgerVars /\ [CategoryNext]_categoryVars /\ [CatalogueNext]_catalogueVars
         /\ [SessionNext]_sessionVars /\ [TenantNext]_tenantVars /\ [RotationNext]_vaultVars
         /\ [LimiterNext]_limiterVars /\ [DeskNext]_deskVars /\ [PushNext]_pushVars
         /\ [FeedNext]_feedVars /\ [FormNext]_formVars
BY Zenon DEF Next, Alone, vars

\* A behaviour of the whole is one of each component.
LEMMA EachComponentBehaves ==
  Spec => /\ LedgerSpec /\ CategorySpec /\ CatalogueSpec /\ SessionSpec /\ TenantSpec /\ RotationSpec
          /\ LimiterSpec /\ DeskSpec /\ PushSpec /\ FeedSpec /\ FormSpec
<1>1. Init => /\ LedgerInit /\ CategoryInit /\ CatalogueInit /\ SessionInit /\ TenantInit /\ RotationInit
              /\ LimiterInit /\ DeskInit /\ PushInit /\ FeedInit /\ FormInit
  BY DEF Init
<1> QED
  BY <1>1, StepIsOfOne, PTL
  DEF Spec, LedgerSpec, CategorySpec, CatalogueSpec, SessionSpec, TenantSpec, RotationSpec, LimiterSpec, DeskSpec,
      PushSpec, FeedSpec, FormSpec

\* Whichever component works, the state of every one is of its type.
THEOREM TypesAlwaysOK == Spec => []TypesOK
<1>1. Init => component \in Components
  BY DEF Init
<1>2. component \in Components /\ [Next]_vars => (component \in Components)'
  BY Zenon DEF Next, Alone, vars
<1>3. /\ component \in Components
      /\ LedgerTypeOK /\ CategoryTypeOK /\ CatalogueTypeOK /\ SessionTypeOK /\ TenantTypeOK /\ RotationTypeOK
      /\ LimiterTypeOK /\ DeskTypeOK /\ PushTypeOK /\ FeedTypeOK /\ FormTypeOK
      => TypesOK
  BY DEF TypesOK, Components
<1>4. Spec => [](component \in Components)
  BY <1>1, <1>2, PTL DEF Spec
<1>5. Spec => [](/\ LedgerTypeOK /\ CategoryTypeOK /\ CatalogueTypeOK /\ SessionTypeOK /\ TenantTypeOK
                 /\ RotationTypeOK /\ LimiterTypeOK /\ DeskTypeOK /\ PushTypeOK /\ FeedTypeOK /\ FormTypeOK)
  BY EachComponentBehaves, LedgerTypeCorrect, CategoryTypeCorrect, CatalogueTypeCorrect, SessionTypeCorrect,
     TenantTypeCorrect, RotationTypeCorrect, LimiterTypeCorrect, DeskTypeCorrect, PushTypeCorrect, FeedTypeCorrect,
     FormTypeCorrect, PTL
<1> QED
  BY <1>3, <1>4, <1>5, PTL

\* Side by side as alone: stock and ledger agree, the category tree stands, a
\* deleted product frees its SKU, sessions rotate and stay, nothing lives under a
\* deleted tenant, a stored token works, calls are paced, timelines tell, the
\* marketplaces follow, walks miss nothing, stored settings are sound, and the
\* wizard leads through.
THEOREM AllHoldTogether ==
  Spec => [](/\ LedgerAddsUp /\ InventoryIsStock /\ TreeStands /\ SlugsDiffer /\ DeletedFreesSku /\ RefusedWithReason
             /\ OneSessionPerDevice /\ DeviceStaysSignedIn /\ LiveUnderLive /\ SwitchAgrees
             /\ StoredTokenWorks /\ SellerKeysKept /\ CallsArePaced /\ TimelineTells /\ RepeatIsAnswered
             /\ MarketInStep /\ FetchIsExact /\ FilterKeepsWanted /\ StoredIsSound
             /\ WizardLeadsThrough)
BY EachComponentBehaves, LedgerAlwaysAddsUp, RecordIsStock, TreeAlwaysStands, SlugsAlwaysDiffer, DeletionFreesSku,
   NoRefusalWithoutReason, RotationLeavesOne, SignedInStaysSignedIn, NothingLiveUnderDeleted, SwitchIsAdmitted,
   TokenAlwaysWorks, KeysAlwaysKept, PacingHolds, TimelineAlwaysTells, RepeatsAnswered, MarketFollows,
   FetchingIsExact, FilteringKeepsWanted, StoredStaysSound, WizardAlwaysLeads, PTL

=============================================================================
