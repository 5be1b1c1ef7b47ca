--------------------------- MODULE MCOutsideWorld ---------------------------
(* What comes from other services at no fixed time: a behaviour is one of  *)
(* the commands check-versions (main.go), of which cron may let two run at *)
(* once, fetch-nodes where it saves the prefixes of autonomous systems,    *)
(* and scripts/update_ip_types, whose walks over the nodes the satellites' *)
(* fetchers overtake.                                                      *)
EXTENDS VersionChecks, AsInfo, NodeScans, TLC

LastVersions == [StorjIo |-> 1, GitHub |-> 2]

\* Two nodes of one system and one that GeoIP does not know.
SystemOf == <<1, 1, 0>>

ListsOfTwo == {{}, {1}, {2}, {1, 2}}

\* The processes that check versions are alike.
ChecksAlike == Permutations(Checks)

VARIABLE command

worldVars == <<command, verVars, asVars, scanVars>>

WorldInit ==
  /\ command \in {"check-versions", "fetch-nodes (systems)", "update-ip-types"}
  /\ VerInit /\ AsInit /\ ScanInit
  \* One initial state of the variables that the command does not use.
  /\ command # "fetch-nodes (systems)" => asService = {}
  /\ command # "update-ip-types" => /\ stamp = [n \in ScanNodes |-> 1] /\ active = {}
                                    /\ DOMAIN ipinfo = {}
                                    /\ scan.name = "fill-node-asns"

CMDCheckVersions ==
  /\ command = "check-versions" /\ VerNext
  /\ UNCHANGED <<asVars, scanVars>>
CMDFetchSystems ==
  /\ command = "fetch-nodes (systems)" /\ AsNext
  /\ UNCHANGED <<verVars, scanVars>>
UpdateIPTypes ==
  /\ command = "update-ip-types" /\ ScanNext
  /\ UNCHANGED <<verVars, asVars>>

WorldNext ==
  /\ UNCHANGED command
  /\ CMDCheckVersions \/ CMDFetchSystems \/ UpdateIPTypes

WorldSpec == WorldInit /\ [][WorldNext]_worldVars

\* The modules' type invariants together.
WorldTypeOK == AsTypeOK /\ ScanTypeOK
=============================================================================
