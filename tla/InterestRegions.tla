-------------------------- MODULE InterestRegions ---------------------------
(***************************************************************************)
(* A user's interest regions (UserService): replacing the list, choosing   *)
(* the primary one and deleting one are transactions; the first region at  *)
(* onboarding and a single further one are a SELECT and, later, an INSERT. *)
(***************************************************************************)
EXTENDS AccountData

INTEREST_REGIONS_MAX_COUNT == 3

\* The /users/regions routes of UserController; a region may be unknown.
RegionRequests ==
  [op: {"putRegions"}, user: Nat, regions: Seq(Regions \cup {None}),
   primary: Regions \cup {None}]
    \cup [op: {"onboard", "addRegion"}, user: Nat, region: Regions \cup {None}]

\* The /users/regions/:regionId routes.
PrimaryRequests ==
  [op: {"setPrimary", "deleteRegion"}, user: Nat, region: Regions \cup {None}]

RegionOps == {"putRegions", "onboard", "addRegion", "setPrimary", "deleteRegion"}

NewRegion(r, region, primary) ==
  [user |-> User(r), region |-> region, primary |-> primary, live |-> TRUE,
   by |-> r]

OnlyRegions == NoRedis /\ UNCHANGED now

\* saveInterestRegions: the regions exist, each named once, the primary one
\* among them; the rows to delete are those of the snapshot.
ReadRegionList(r) ==
  LET ids == plan[r].regions
  IN /\ Op(r) = "putRegions"
     /\ IF \/ Cardinality(ToSet(ids) \cap Regions) # Len(ids)
           \/ plan[r].primary # None /\ plan[r].primary \notin ToSet(ids)
          THEN Refuse(r, "idle")
          ELSE Step(r, "idle", "replace", FindRegions(db, User(r)))
     /\ NoWrite /\ OnlyRegions

ReplaceRegions(r) ==
  /\ Step(r, "replace", "done", None)
  /\ Store("regions",
       SoftDelete(db.regions, got[r])
         \o [i \in DOMAIN plan[r].regions |->
               NewRegion(r, plan[r].regions[i],
                         plan[r].regions[i] = plan[r].primary)])
  /\ OnlyRegions

\* setPrimaryInterestRegion: the flush writes the flags that have changed.
ReadPrimary(r) ==
  /\ Op(r) = "setPrimary"
  /\ \E target \in AnyOf(FindByRegion(db, User(r), plan[r].region)),
        current \in AnyOf(FindPrimary(db, User(r))) :
       IF target = None THEN Refuse(r, "idle")
       ELSE Step(r, "idle", "primary",
              [clear |-> {current} \ {None, target},
               set   |-> IF db.regions[target].primary THEN {} ELSE {target}])
  /\ NoWrite /\ OnlyRegions

MovePrimary(r) ==
  /\ Step(r, "primary", "done", None)
  /\ Store("regions", Write(Write(db.regions, got[r].clear, "primary", FALSE),
                            got[r].set, "primary", TRUE))
  /\ OnlyRegions

\* Mutant: the primary region may be deleted.
ReadRegion_Primary(r) ==
  /\ Op(r) = "deleteRegion"
  /\ \E target \in AnyOf(FindByRegion(db, User(r), plan[r].region)) :
       IF target = None THEN Refuse(r, "idle") ELSE Step(r, "idle", "drop", {target})
  /\ NoWrite /\ OnlyRegions

\* deleteInterestRegion refuses the region that is primary in its snapshot.
ReadRegion(r) ==
  /\ Op(r) = "deleteRegion"
  /\ \E target \in AnyOf(FindByRegion(db, User(r), plan[r].region)) :
       IF target = None THEN Refuse(r, "idle")
       ELSE IF db.regions[target].primary THEN Refuse(r, "idle")
       ELSE Step(r, "idle", "drop", {target})
  /\ NoWrite /\ OnlyRegions

DropRegion(r) ==
  /\ Step(r, "drop", "done", None)
  /\ Store("regions", SoftDelete(db.regions, got[r]))
  /\ OnlyRegions

\* setOnboardingInterestRegion: only for a user who has none.
MayOnboard(r) == /\ FindOneUser(db, User(r))
                 /\ plan[r].region \in Regions
                 /\ FindRegions(db, User(r)) = {}

\* Mutant: the limit is compared with <=.
MayAdd_OneMore(r) ==
  /\ plan[r].region \in Regions
  /\ FindByRegion(db, User(r), plan[r].region) = {}
  /\ Cardinality(FindRegions(db, User(r))) <= INTEREST_REGIONS_MAX_COUNT

\* saveInterestRegion: not a region the user has, and fewer than three.
MayAdd(r) ==
  /\ plan[r].region \in Regions
  /\ FindByRegion(db, User(r), plan[r].region) = {}
  /\ Cardinality(FindRegions(db, User(r))) < INTEREST_REGIONS_MAX_COUNT

ReadRegions(r) ==
  /\ \/ Op(r) = "onboard" /\ IF MayOnboard(r) THEN Step(r, "idle", "insert", TRUE)
                                              ELSE Refuse(r, "idle")
     \/ Op(r) = "addRegion" /\ IF MayAdd(r) THEN Step(r, "idle", "insert", FALSE)
                                            ELSE Refuse(r, "idle")
  /\ NoWrite /\ OnlyRegions

\* Mutant: the flag is left to the entity.
InsertRegion_NoFlag(r) ==
  /\ Step(r, "insert", "done", None)
  /\ Store("regions", Append(db.regions, NewRegion(r, plan[r].region, None)))
  /\ OnlyRegions

\* create and flush; only the onboarding region is primary.
InsertRegion(r) ==
  /\ Step(r, "insert", "done", None)
  /\ Store("regions",
       Append(db.regions, NewRegion(r, plan[r].region, got[r])))
  /\ OnlyRegions

InterestRegionsNext(r) ==
  \/ ReadRegionList(r) \/ ReplaceRegions(r)
  \/ ReadPrimary(r) \/ MovePrimary(r)
  \/ ReadRegion(r) \/ DropRegion(r)
  \/ ReadRegions(r) \/ InsertRegion(r)

-----------------------------------------------------------------------------

\* Two requests that write the regions of u met.
RegionOverlap(u) ==
  \E q, r \in Req : /\ Op(q) \in RegionOps /\ User(q) = u
                    /\ Op(r) \in RegionOps \cup {"withdraw"} /\ User(r) = u
                    /\ Met(q, r)

\* A user has one primary region at most and three regions at most, whatever
\* requests came before, unless two of them met; only saveInterestRegions
\* stores more than three.
RegionLimits ==
  \A u \in UserIds : ~RegionOverlap(u) =>
    /\ Cardinality(FindPrimary(db, u)) <= 1
    /\ \/ Cardinality(FindRegions(db, u)) <= INTEREST_REGIONS_MAX_COUNT
       \/ \E r \in Req : Op(r) = "putRegions" /\ User(r) = u /\ pc[r] # "idle"

\* Whoever has a primary region keeps one: it is given up only with a whole
\* new list, with the account, or by requests that met (setPrimary of a
\* region and deletion of it each act on a snapshot without the other).
PrimaryStays ==
  [][\A u \in UserIds :
       FindPrimary(db, u) # {} /\ FindPrimary(db', u) = {} =>
         \/ RegionOverlap(u)
         \/ \E r \in Req : /\ pc[r] # pc'[r]
                           /\ Op(r) \in {"putRegions", "withdraw"}
                           /\ User(r) = u]_accountVars
=============================================================================
