----------------------------- MODULE MCIngestion -----------------------------
(***************************************************************************)
(* An instance of Ingestion for TLC: months 11 to 14 are December to       *)
(* March.                                                                  *)
(***************************************************************************)
EXTENDS Ingestion, TLC

CONSTANTS flight, hotel, undated, misshapen, empty

MKind == flight :> "flight" @@ hotel :> "hotel" @@ undated :> "flight"
           @@ misshapen :> "misshapen" @@ empty :> "empty"
MWhen == flight :> 14 @@ hotel :> 12 @@ undated :> NoDate
           @@ misshapen :> NoDate @@ empty :> NoDate
MUser == [m \in Message |-> "u"]
=============================================================================
