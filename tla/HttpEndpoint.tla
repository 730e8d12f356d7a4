---------------------------- MODULE HttpEndpoint ---------------------------
(***************************************************************************)
(* The HTTP requests the Confab server answers, one operator for each      *)
(* handler: the response as a function of the database and the request,    *)
(* and for a POST also the database after it.  The server is threaded, but *)
(* a handler reads or writes the database in one LevelDB operation, so a   *)
(* request takes effect at one moment.                                     *)
(*                                                                         *)
(* A body that does not verify as the expected flatbuffer is not modelled  *)
(* for POST: the bodies come from HttpClient, which builds them.           *)
(***************************************************************************)
EXTENDS AssetDatabase

Ok == 200
Not_Found == 404
Internal_Server_Error == 500

Found(record) ==
    [code |-> IF record = EmptyRecord THEN Not_Found ELSE Ok, record |-> record]

PostedAnyway(db, stored, written) ==                          \* mutant
    [code |-> Ok, db |-> IF written THEN stored ELSE db]
(* written is the status of the LevelDB write.                             *)
Posted(db, stored, written) ==
    [code |-> IF written THEN Ok ELSE Internal_Server_Error,
     db   |-> IF written THEN stored ELSE db]

getAsset(db, key) == Found(findAsset(db, key))

getNamedAsset(db, name) == Found(findNamedAsset(db, name))

postAssetUnbatched(db, key, asset, time, written) ==          \* mutant
    [code |-> IF written THEN Ok ELSE Internal_Server_Error,
     db   |-> IF written THEN storeAsset(db, key, asset, time)
              ELSE storeAssetLinks(db, key, asset, time)]
postAsset(db, key, asset, time, written) ==
    Posted(db, storeAsset(db, key, asset, time), written)

getAssetData(db, key, chunk) == Found(loadAssetDataChunk(db, key, chunk))

postAssetData(db, key, chunk, data, written) ==
    Posted(db, storeAssetDataChunk(db, key, chunk, data), written)

postList(db, list, record, written) ==
    Posted(db, storeList(db, list, record), written)

getNamedList(db, name) == Found(findNamedList(db, name))

(* An empty page is answered as an error.                                  *)
getListItems(db, list, token, maxPairs) ==
    LET page == getListNext(db, list, token, maxPairs)
    IN  [code |-> IF page = {} THEN Internal_Server_Error ELSE Ok,
         page |-> page]
=============================================================================
