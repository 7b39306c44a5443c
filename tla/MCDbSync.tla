------------------------------ MODULE MCDbSync ------------------------------
(***************************************************************************)
(* One database zone for TLC, with a history variable: the zones for which *)
(* the two streams crossed (Dropped, Crossed).                             *)
(***************************************************************************)
EXTENDS DbSync, TLC

CONSTANT z1

VARIABLE raced

mcVars == <<vars, raced>>

(* The Backend throws away a fetched zone that is the database's version:  *)
(* the request has expired, the zone has left the directory or has moved.  *)
Dropped(z) ==
    \/ /\ fromF # <<>> /\ fromF' = Tail(fromF) /\ fcur' = NoJob
       /\ Head(fromF).ok /\ Head(fromF).z = z /\ Head(fromF).v = db[z]
    \/ /\ fcur # NoJob /\ fcur' = NoJob
       /\ fcur.z = z /\ fcur.v = db[z] /\ dir'[z].data # db[z].ver

(* A batch brings a version that is older than the directory's, or the     *)
(* deletion of a version the directory does not have yet.                  *)
Crossed(z) ==
    \/ /\ toB' # toB \/ cur' # cur
       /\ \/ dir'[z].sid < dir[z].sid
          \/ dir'[z].sid = dir[z].sid /\ dir'[z].serial < dir[z].serial
    \/ /\ toB # <<>> /\ toB' = Tail(toB)
       /\ Head(toB).t = "delete" /\ Head(toB).z = z /\ Known(dir'[z])

MCInit == Init /\ raced = {}

MCNext ==
    /\ Next
    /\ raced' = IF loader.pc = "down" THEN {}
                ELSE raced \cup {z \in Zones : Dropped(z) \/ Crossed(z)}

MCSpec == MCInit /\ [][MCNext]_mcVars

MCFair == MCSpec /\ Fairness

-----------------------------------------------------------------------------
(* The directory and the data of a zone against the database.              *)
Serves(z) == Same(dir[z], db[z]) /\ dir[z].data \in {0, db[z].ver}

(* When nothing is on its way the Backend has the database: a zone whose   *)
(* data can be used is in the directory in the database's version and the  *)
(* data in memory, if any, is that version; a zone the database lost is    *)
(* gone, unless its last version was refused.  Whatever the order of edits,*)
(* answers, evictions, failed reads, requests and loader deaths was, except*)
(* for the zones of raced.                                                 *)
SettledExact ==
    Quiet => \A z \in Zones \ raced :
        /\ db[z] # NoZone /\ db[z].q = "ok" => Serves(z)
        /\ db[z] = NoZone => ~Known(dir[z]) \/ dir[z].last = "REJECTED"

(* A zone that was fetched never takes the directory back to an older      *)
(* version of the zone, however long it was on its way (the check of       *)
(* job_execute against the version at the request).                        *)
FetchNeverGoesBack ==
    [][\A z \in Zones :
          fcur # NoJob /\ fcur' = NoJob /\ dir'[z].sid = dir[z].sid
             => dir'[z].serial >= dir[z].serial]_mcVars

(* The conversation ends: after the last edit, request and fault the loader *)
(* stops sending, every fetch is over and every answer has been taken.      *)
Settles == []<>Quiet

(* What the loader's comment on fev_drain and the user manual promise: a   *)
(* change of the database becomes visible, also when fetches run.          *)
ChangesBecomeVisible ==
    Quiet => \A z \in Zones : db[z] # NoZone /\ db[z].q = "ok" =>
                Known(dir[z]) /\ dir[z].data \in {0, db[z].ver}

(* A zone that is no longer in the database leaves the server: its data is *)
(* not served any more.                                                    *)
GoneZonesLeave == Quiet => \A z \in Zones : db[z] = NoZone => dir[z].data = 0
=============================================================================
