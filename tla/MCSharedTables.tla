--------------------------- MODULE MCSharedTables ---------------------------
(* What processes take from and put into tables without telling each other *)
(* how far they are, and a file replaced under a process that follows it:  *)
(* a behaviour is the claiming of due rows by a loader, the companies that *)
(* the fetchers of main.go's fetch-nodes save, or the GeoIP databases of   *)
(* its http command.                                                       *)
EXTENDS ClaimRotation, IpCompanies, GeoIPReload, TLC

\* One company has both addresses, as the service says of the first; of the
\* second it knows nothing, or a part of that range.
Company(x, y) == [from |-> x, to |-> y, info |-> "c"]
TwoAddresses(ip) == IF ip = 1 THEN {Company(1, 2)} ELSE {Unknown, Company(2, 2)}

VARIABLE command

sharedVars == <<command, vars, ipVars, geoVars>>

SharedInit ==
  /\ command \in {"claim", "fetch-nodes (companies)", "http"}
  /\ Init /\ IpInit /\ GeoInit
  /\ service = [ip \in Ip |-> IF ip = 1 THEN Company(1, 2) ELSE Unknown]

ClaimRows ==
  /\ command = "claim" /\ Next
  /\ UNCHANGED <<ipVars, geoVars>>
CMDFetchCompanies ==
  /\ command = "fetch-nodes (companies)" /\ IpNext
  /\ UNCHANGED <<vars, geoVars>>
CMDHttp ==
  /\ command = "http" /\ GeoNext
  /\ UNCHANGED <<vars, ipVars>>

SharedNext ==
  /\ UNCHANGED command
  /\ ClaimRows \/ CMDFetchCompanies \/ CMDHttp

\* The modules' fairness (of Spec, IpFairness, GeoFairness), of what runs.
SharedFairness ==
  /\ WF_vars(command = "claim" /\ Claim)
  /\ WF_vars(command = "claim" /\ Pushed)
  /\ \A p \in Fetchers : WF_ipVars(command = "fetch-nodes (companies)" /\ Proceed(p))
  /\ \A ip \in Ip :
       /\ SF_ipVars(command = "fetch-nodes (companies)" /\ \E p \in Fetchers : LookUp(p, ip))
       /\ WF_ipVars(command = "fetch-nodes (companies)" /\ NoteGrowsOld(ip))
  /\ WF_geoVars(command = "http" /\ StatFile)
  /\ WF_geoVars(command = "http" /\ Reopen)

SharedSpec == SharedInit /\ [][SharedNext]_sharedVars /\ SharedFairness

\* CoveredAgain (ip_companies.go 17-134) of the command that asks for companies:
\* under the others nothing ever does.
FetchersCoverAgain == command = "fetch-nodes (companies)" => CoveredAgain
=============================================================================
