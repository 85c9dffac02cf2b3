----------------------------- MODULE UpdatePopup ----------------------------
(***************************************************************************)
(* The popup that asks for a newer version of the app: UpdatePopupService  *)
(* and the comparison of versions in the UpdatePopup entity.  A version is *)
(* the sequence of what stands between its dots; a part that parseInt does *)
(* not read is None.                                                       *)
(***************************************************************************)
EXTENDS AccountData

CONSTANTS Versions, Popups   \* Popups: the rows of update_popup, static

UpdatePopupRow == [platform: {"IOS", "ANDROID"}, type: {"FORCE", "RECOMMEND"},
                   version: Versions, active: BOOLEAN, live: BOOLEAN]

PopupRequests == [op: {"popup"}, platform: {"IOS", "ANDROID"}, version: Versions]

\* vParts[i] || 0
Part(version, i) ==
  IF i \in DOMAIN version /\ version[i] # None THEN version[i] ELSE 0

\* Mutant: only the parts both versions have.
CompareVersions_Common(version1, version2) ==
  LET common == Min({Len(version1), Len(version2)})
      from[i \in 1 .. common + 1] ==
        IF i > common THEN 0
        ELSE IF Part(version1, i) < Part(version2, i) THEN -1
        ELSE IF Part(version1, i) > Part(version2, i) THEN 1
        ELSE from[i + 1]
  IN from[1]

\* compareVersions, part by part from the first: -1, 0 or 1.
CompareVersions(version1, version2) ==
  LET longest == Max({Len(version1), Len(version2)})
      from[i \in 1 .. longest + 1] ==
        IF i > longest THEN 0
        ELSE IF Part(version1, i) < Part(version2, i) THEN -1
        ELSE IF Part(version1, i) > Part(version2, i) THEN 1
        ELSE from[i + 1]
  IN from[1]

ShouldShowForVersion(popup, current) ==
  CompareVersions(current, popup.version) < 0

FindAllActiveByPlatform(platform) ==
  {p \in Popups : p.platform = platform /\ p.active /\ p.live}

\* updatePopups.find: one of the type, the first in whatever order they came.
OfType(platform, type) ==
  AnyOf({p \in FindAllActiveByPlatform(platform) : p.type = type})

\* checkUpdatePopup: the popup it shows, or None.
ShownPopup(force, recommend, version) ==
  IF force # None /\ ShouldShowForVersion(force, version) THEN force
  ELSE IF recommend # None /\ ShouldShowForVersion(recommend, version)
    THEN recommend ELSE None

CheckUpdatePopup(r) ==
  /\ Op(r) = "popup"
  /\ \E force \in OfType(plan[r].platform, "FORCE"),
        recommend \in OfType(plan[r].platform, "RECOMMEND") :
       Step(r, "idle", "done", ShownPopup(force, recommend, plan[r].version))
  /\ NoWrite /\ NoRedis /\ UNCHANGED now

-----------------------------------------------------------------------------

\* The order of versions as a reader knows it: they differ, and the first
\* part in which they differ is smaller.
Older(v, w) ==
  LET parts == 1 .. Max({Len(v), Len(w)})
  IN \E i \in parts : /\ Part(v, i) < Part(w, i)
                      /\ \A j \in parts : j < i => Part(v, j) = Part(w, j)

\* Nobody is asked to install a version that is not newer; whoever lags
\* behind every version that is forced is forced; a recommendation is shown
\* only when some forced version is not newer, or none is forced.
PopupIsNewer ==
  \A r \in Req : Op(r) = "popup" /\ Done(r) =>
    LET forced == OfType(plan[r].platform, "FORCE") \ {None}
        shown == got[r]
    IN /\ shown # None => Older(plan[r].version, shown.version)
       /\ forced # {} /\ (\A f \in forced : Older(plan[r].version, f.version))
            => shown \in forced
       /\ shown # None /\ shown.type = "RECOMMEND" /\ forced # {}
            => \E f \in forced : ~Older(plan[r].version, f.version)
=============================================================================
