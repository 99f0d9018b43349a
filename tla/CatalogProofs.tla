----------------------------- MODULE CatalogProofs -----------------------------
(***************************************************************************)
(* Proofs about Catalog, for any number of requests, products and devices. *)
(* The statements of a creation and of a deletion interleave; the          *)
(* inductive invariant says what each still knows about the rows when its  *)
(* next statement runs.                                                    *)
(***************************************************************************)
EXTENDS Catalog, FiniteSetTheorems, TLAPS

USE CatalogAssumption

AllPc == ProductPc \cup DevicePc \cup {"idle"}

\* A creation of a device whose product was found.
Housed == {"countSiblings", "findDeviceKey", "insertDevice"}

\* The devices a deletion has not counted were created behind its back, and a
\* creation knows when its product was deleted meanwhile.
DeletionsKnown ==
    /\ \A q \in Requests, d \in Devices :
         pc[q] = "removeProduct" /\ device[d] = "live" /\ ProductOf[d] = item[q]
         => d \in slipped
    /\ \A r \in Requests :
         pc[r] \in Housed /\ product[ProductOf[item[r]]] = "deleted" => r \in outrun
    /\ \A r \in Requests :
         pc[r] \in Housed => product[ProductOf[item[r]]] # "none"

\* What is about to be removed was there.
RemovedWasThere ==
    \A r \in Requests : pc[r] = "removeDevice" => device[item[r]] # "none"

Inv == /\ TypeOK
       /\ DeletionsKnown
       /\ RemovedWasThere
       /\ DeletedProductsAreEmpty
       /\ ShadowComesWithDevice

-----------------------------------------------------------------------------
\* The initial state satisfies the inductive invariant.
LEMMA InitInv == Init => Inv
  BY DEF Init, Inv, TypeOK, RowStatus, ProductPc, DevicePc, DeletionsKnown, Housed,
         RemovedWasThere, DeletedProductsAreEmpty, ShadowComesWithDevice

\* Only request r moves.
Moves(r) ==
    /\ pc' \in [Requests -> AllPc]
    /\ item' \in [Requests -> Products \cup Devices \cup {NoItem}]
    /\ \A q \in Requests \ {r} : pc'[q] = pc[q] /\ item'[q] = item[q]

\* A request that goes on.
LEMMA GotoCourse ==
  ASSUME TypeOK, NEW r \in Requests, NEW label \in AllPc, Goto(r, label)
  PROVE  Moves(r) /\ pc'[r] = label /\ item'[r] = item[r]
  BY DEF TypeOK, Goto, AllPc, Moves

\* A request that ends.
LEMMA EndCourse ==
  ASSUME TypeOK, NEW r \in Requests, End(r)
  PROVE  Moves(r) /\ pc'[r] = "idle" /\ item'[r] = NoItem
  BY DEF TypeOK, End, AllPc, Moves

-----------------------------------------------------------------------------
(* Each action keeps the inductive invariant.                              *)

\* A request sets out with any product or device.
LEMMA BeginStep ==
  ASSUME Inv, NEW r \in Requests, Begin(r)
  PROVE  Inv'
<1> USE DEF Inv, Moves
<1>1. /\ pc[r] = "idle"
      /\ Moves(r)
      /\ \/ pc'[r] \in {"countProducts", "findProduct"} /\ item'[r] \in Products
         \/ pc'[r] \in {"findHome", "findDevice"} /\ item'[r] \in Devices
  BY DEF Begin, TypeOK, AllPc, ProductPc, DevicePc
<1>2. UNCHANGED <<product, device, shadow, outrun, slipped, bare>>
  BY DEF Begin, rows, history
<1>3. TypeOK'
  BY <1>1, <1>2 DEF TypeOK, RowStatus, AllPc, ProductPc, DevicePc
<1>4. DeletionsKnown'
  BY <1>1, <1>2
     DEF TypeOK, DeletionsKnown, Housed, LiveDevices, ProductPc, DevicePc
<1>5. RemovedWasThere'
  BY <1>1, <1>2 DEF TypeOK, RemovedWasThere, DevicePc
<1>6. DeletedProductsAreEmpty'
  BY <1>1, <1>2 DEF TypeOK, DeletedProductsAreEmpty, DeletionsKnown, Housed
<1>7. ShadowComesWithDevice'
  BY <1>1, <1>2 DEF TypeOK, ShadowComesWithDevice, RemovedWasThere
<1> QED BY <1>3, <1>4, <1>5, <1>6, <1>7

\* Counting the products changes nothing but the course.
LEMMA CountProductsStep ==
  ASSUME Inv, NEW r \in Requests, CountProducts(r)
  PROVE  Inv'
<1> USE DEF Inv, Moves
<1>1. pc[r] = "countProducts"
  BY DEF CountProducts
<1>2. UNCHANGED <<product, device, shadow, outrun, slipped, bare>>
  BY DEF CountProducts, rows, history
<1>3. /\ Moves(r)
      /\ \/ pc'[r] = "idle" /\ item'[r] = NoItem
         \/ pc'[r] = "findKey" /\ item'[r] = item[r] /\ Cardinality(LiveProducts) < MaxProducts
  <2>1. CASE Goto(r, "findKey") /\ Cardinality(LiveProducts) < MaxProducts
    BY <1>1, <2>1, GotoCourse DEF AllPc, ProductPc
  <2>2. CASE End(r)
    BY <1>1, <2>2, EndCourse
  <2> QED BY <2>1, <2>2 DEF CountProducts, Guarded
<1>4. TypeOK'
  BY <1>1, <1>2, <1>3 DEF TypeOK, RowStatus, AllPc, ProductPc, DevicePc
<1>5. DeletionsKnown'
  BY <1>1, <1>2, <1>3
     DEF TypeOK, DeletionsKnown, Housed, LiveDevices, ProductPc, DevicePc
<1>6. RemovedWasThere'
  BY <1>1, <1>2, <1>3 DEF TypeOK, RemovedWasThere, DevicePc
<1>7. DeletedProductsAreEmpty'
  BY <1>1, <1>2, <1>3
     DEF TypeOK, DeletedProductsAreEmpty, DeletionsKnown, Housed
<1>8. ShadowComesWithDevice'
  BY <1>1, <1>2, <1>3 DEF TypeOK, ShadowComesWithDevice, RemovedWasThere
<1> QED BY <1>4, <1>5, <1>6, <1>7, <1>8

\* Looking up the key changes nothing but the course.
LEMMA FindKeyStep ==
  ASSUME Inv, NEW r \in Requests, FindKey(r)
  PROVE  Inv'
<1> USE DEF Inv, Moves
<1>1. pc[r] = "findKey"
  BY DEF FindKey
<1>2. UNCHANGED <<product, device, shadow, outrun, slipped, bare>>
  BY DEF FindKey, rows, history
<1>3. /\ Moves(r)
      /\ \/ pc'[r] = "idle" /\ item'[r] = NoItem
         \/ pc'[r] = "insertProduct" /\ item'[r] = item[r] /\ product[item[r]] = "none"
  <2>1. CASE Goto(r, "insertProduct") /\ product[item[r]] = "none"
    BY <1>1, <2>1, GotoCourse DEF AllPc, ProductPc
  <2>2. CASE End(r)
    BY <1>1, <2>2, EndCourse
  <2> QED BY <2>1, <2>2 DEF FindKey, Guarded
<1>4. TypeOK'
  BY <1>1, <1>2, <1>3 DEF TypeOK, RowStatus, AllPc, ProductPc, DevicePc
<1>5. DeletionsKnown'
  BY <1>1, <1>2, <1>3
     DEF TypeOK, DeletionsKnown, Housed, LiveDevices, ProductPc, DevicePc
<1>6. RemovedWasThere'
  BY <1>1, <1>2, <1>3 DEF TypeOK, RemovedWasThere, DevicePc
<1>7. DeletedProductsAreEmpty'
  BY <1>1, <1>2, <1>3
     DEF TypeOK, DeletedProductsAreEmpty, DeletionsKnown, Housed
<1>8. ShadowComesWithDevice'
  BY <1>1, <1>2, <1>3 DEF TypeOK, ShadowComesWithDevice, RemovedWasThere
<1> QED BY <1>4, <1>5, <1>6, <1>7, <1>8

\* Finding the product changes nothing but the course.
LEMMA FindProductStep ==
  ASSUME Inv, NEW r \in Requests, FindProduct(r)
  PROVE  Inv'
<1> USE DEF Inv, Moves
<1>1. pc[r] = "findProduct"
  BY DEF FindProduct
<1>2. UNCHANGED <<product, device, shadow, outrun, slipped, bare>>
  BY DEF FindProduct, rows, history
<1>3. /\ Moves(r)
      /\ \/ pc'[r] = "idle" /\ item'[r] = NoItem
         \/ pc'[r] = "countDevices" /\ item'[r] = item[r] /\ product[item[r]] = "live"
  <2>1. CASE Goto(r, "countDevices") /\ product[item[r]] = "live"
    BY <1>1, <2>1, GotoCourse DEF AllPc, ProductPc
  <2>2. CASE End(r)
    BY <1>1, <2>2, EndCourse
  <2> QED BY <2>1, <2>2 DEF FindProduct, Guarded
<1>4. TypeOK'
  BY <1>1, <1>2, <1>3 DEF TypeOK, RowStatus, AllPc, ProductPc, DevicePc
<1>5. DeletionsKnown'
  BY <1>1, <1>2, <1>3
     DEF TypeOK, DeletionsKnown, Housed, LiveDevices, ProductPc, DevicePc
<1>6. RemovedWasThere'
  BY <1>1, <1>2, <1>3 DEF TypeOK, RemovedWasThere, DevicePc
<1>7. DeletedProductsAreEmpty'
  BY <1>1, <1>2, <1>3
     DEF TypeOK, DeletedProductsAreEmpty, DeletionsKnown, Housed
<1>8. ShadowComesWithDevice'
  BY <1>1, <1>2, <1>3 DEF TypeOK, ShadowComesWithDevice, RemovedWasThere
<1> QED BY <1>4, <1>5, <1>6, <1>7, <1>8

\* A deletion goes on when its product has no devices.
LEMMA CountDevicesStep ==
  ASSUME Inv, NEW r \in Requests, CountDevices(r)
  PROVE  Inv'
<1> USE DEF Inv, Moves
<1>1. pc[r] = "countDevices"
  BY DEF CountDevices
<1>2. UNCHANGED <<product, device, shadow, outrun, slipped, bare>>
  BY DEF CountDevices, rows, history
<1>3. /\ Moves(r)
      /\ \/ pc'[r] = "idle" /\ item'[r] = NoItem
         \/ pc'[r] = "removeProduct" /\ item'[r] = item[r] /\ LiveDevices(item[r]) = {}
  <2>1. CASE Goto(r, "removeProduct") /\ LiveDevices(item[r]) = {}
    BY <1>1, <2>1, GotoCourse DEF AllPc, ProductPc
  <2>2. CASE End(r)
    BY <1>1, <2>2, EndCourse
  <2> QED BY <2>1, <2>2 DEF CountDevices, Guarded
<1>4. TypeOK'
  BY <1>1, <1>2, <1>3 DEF TypeOK, RowStatus, AllPc, ProductPc, DevicePc
<1>5. DeletionsKnown'
  BY <1>1, <1>2, <1>3
     DEF TypeOK, DeletionsKnown, Housed, LiveDevices, ProductPc, DevicePc
<1>6. RemovedWasThere'
  BY <1>1, <1>2, <1>3 DEF TypeOK, RemovedWasThere, DevicePc
<1>7. DeletedProductsAreEmpty'
  BY <1>1, <1>2, <1>3
     DEF TypeOK, DeletedProductsAreEmpty, DeletionsKnown, Housed
<1>8. ShadowComesWithDevice'
  BY <1>1, <1>2, <1>3 DEF TypeOK, ShadowComesWithDevice, RemovedWasThere
<1> QED BY <1>4, <1>5, <1>6, <1>7, <1>8

\* A creation goes on when its product is there.
LEMMA FindHomeStep ==
  ASSUME Inv, NEW r \in Requests, FindHome(r)
  PROVE  Inv'
<1> USE DEF Inv, Moves
<1>1. pc[r] = "findHome"
  BY DEF FindHome
<1>2. UNCHANGED <<product, device, shadow, outrun, slipped, bare>>
  BY DEF FindHome, rows, history
<1>3. /\ Moves(r)
      /\ \/ pc'[r] = "idle" /\ item'[r] = NoItem
         \/ pc'[r] = "countSiblings" /\ item'[r] = item[r] /\ product[ProductOf[item[r]]] = "live"
  <2>1. CASE Goto(r, "countSiblings") /\ product[ProductOf[item[r]]] = "live"
    BY <1>1, <2>1, GotoCourse DEF AllPc, DevicePc
  <2>2. CASE End(r)
    BY <1>1, <2>2, EndCourse
  <2> QED BY <2>1, <2>2 DEF FindHome, Guarded
<1>4. TypeOK'
  BY <1>1, <1>2, <1>3 DEF TypeOK, RowStatus, AllPc, ProductPc, DevicePc
<1>5. DeletionsKnown'
  BY <1>1, <1>2, <1>3
     DEF TypeOK, DeletionsKnown, Housed, LiveDevices, ProductPc, DevicePc
<1>6. RemovedWasThere'
  BY <1>1, <1>2, <1>3 DEF TypeOK, RemovedWasThere, DevicePc
<1>7. DeletedProductsAreEmpty'
  BY <1>1, <1>2, <1>3
     DEF TypeOK, DeletedProductsAreEmpty, DeletionsKnown, Housed
<1>8. ShadowComesWithDevice'
  BY <1>1, <1>2, <1>3 DEF TypeOK, ShadowComesWithDevice, RemovedWasThere
<1> QED BY <1>4, <1>5, <1>6, <1>7, <1>8

\* A deletion goes on when its device is there.
LEMMA FindDeviceStep ==
  ASSUME Inv, NEW r \in Requests, FindDevice(r)
  PROVE  Inv'
<1> USE DEF Inv, Moves
<1>1. pc[r] = "findDevice"
  BY DEF FindDevice
<1>2. UNCHANGED <<product, device, shadow, outrun, slipped, bare>>
  BY DEF FindDevice, rows, history
<1>3. /\ Moves(r)
      /\ \/ pc'[r] = "idle" /\ item'[r] = NoItem
         \/ pc'[r] = "removeDevice" /\ item'[r] = item[r] /\ device[item[r]] = "live"
  <2>1. CASE Goto(r, "removeDevice") /\ device[item[r]] = "live"
    BY <1>1, <2>1, GotoCourse DEF AllPc, DevicePc
  <2>2. CASE End(r)
    BY <1>1, <2>2, EndCourse
  <2> QED BY <2>1, <2>2 DEF FindDevice, Guarded
<1>4. TypeOK'
  BY <1>1, <1>2, <1>3 DEF TypeOK, RowStatus, AllPc, ProductPc, DevicePc
<1>5. DeletionsKnown'
  BY <1>1, <1>2, <1>3
     DEF TypeOK, DeletionsKnown, Housed, LiveDevices, ProductPc, DevicePc
<1>6. RemovedWasThere'
  BY <1>1, <1>2, <1>3 DEF TypeOK, RemovedWasThere, DevicePc
<1>7. DeletedProductsAreEmpty'
  BY <1>1, <1>2, <1>3
     DEF TypeOK, DeletedProductsAreEmpty, DeletionsKnown, Housed
<1>8. ShadowComesWithDevice'
  BY <1>1, <1>2, <1>3 DEF TypeOK, ShadowComesWithDevice, RemovedWasThere
<1> QED BY <1>4, <1>5, <1>6, <1>7, <1>8

\* A creation that is refused by the quota is forgotten.
LEMMA CountSiblingsStep ==
  ASSUME Inv, NEW r \in Requests, CountSiblings(r)
  PROVE  Inv'
<1> USE DEF Inv, Moves
<1>1. pc[r] = "countSiblings"
  BY DEF CountSiblings
<1>2. UNCHANGED <<product, device, shadow, slipped, bare>>
  BY DEF CountSiblings, Admitted, rows
<1>3. /\ Moves(r)
      /\ \/ pc'[r] = "idle" /\ item'[r] = NoItem /\ outrun' = outrun \ {r}
         \/ pc'[r] = "findDeviceKey" /\ item'[r] = item[r] /\ Cardinality(LiveDevices(ProductOf[item[r]])) < MaxDevices /\ UNCHANGED outrun
  <2>1. CASE Goto(r, "findDeviceKey") /\ Cardinality(LiveDevices(ProductOf[item[r]])) < MaxDevices /\ UNCHANGED outrun
    BY <1>1, <2>1, GotoCourse DEF AllPc, DevicePc
  <2>2. CASE End(r) /\ outrun' = outrun \ {r}
    BY <1>1, <2>2, EndCourse
  <2> QED BY <2>1, <2>2 DEF CountSiblings, Admitted, Guarded
<1>4. TypeOK'
  BY <1>1, <1>2, <1>3 DEF TypeOK, RowStatus, AllPc, ProductPc, DevicePc
<1>5. DeletionsKnown'
  BY <1>1, <1>2, <1>3
     DEF TypeOK, DeletionsKnown, Housed, LiveDevices, ProductPc, DevicePc
<1>6. RemovedWasThere'
  BY <1>1, <1>2, <1>3 DEF TypeOK, RemovedWasThere, DevicePc
<1>7. DeletedProductsAreEmpty'
  BY <1>1, <1>2, <1>3
     DEF TypeOK, DeletedProductsAreEmpty, DeletionsKnown, Housed
<1>8. ShadowComesWithDevice'
  BY <1>1, <1>2, <1>3 DEF TypeOK, ShadowComesWithDevice, RemovedWasThere
<1> QED BY <1>4, <1>5, <1>6, <1>7, <1>8

\* A creation that is refused for its key is forgotten.
LEMMA FindDeviceKeyStep ==
  ASSUME Inv, NEW r \in Requests, FindDeviceKey(r)
  PROVE  Inv'
<1> USE DEF Inv, Moves
<1>1. pc[r] = "findDeviceKey"
  BY DEF FindDeviceKey
<1>2. UNCHANGED <<product, device, shadow, slipped, bare>>
  BY DEF FindDeviceKey, Admitted, rows
<1>3. /\ Moves(r)
      /\ \/ pc'[r] = "idle" /\ item'[r] = NoItem /\ outrun' = outrun \ {r}
         \/ pc'[r] = "insertDevice" /\ item'[r] = item[r] /\ device[item[r]] = "none" /\ UNCHANGED outrun
  <2>1. CASE Goto(r, "insertDevice") /\ device[item[r]] = "none" /\ UNCHANGED outrun
    BY <1>1, <2>1, GotoCourse DEF AllPc, DevicePc
  <2>2. CASE End(r) /\ outrun' = outrun \ {r}
    BY <1>1, <2>2, EndCourse
  <2> QED BY <2>1, <2>2 DEF FindDeviceKey, Admitted, Guarded
<1>4. TypeOK'
  BY <1>1, <1>2, <1>3 DEF TypeOK, RowStatus, AllPc, ProductPc, DevicePc
<1>5. DeletionsKnown'
  BY <1>1, <1>2, <1>3
     DEF TypeOK, DeletionsKnown, Housed, LiveDevices, ProductPc, DevicePc
<1>6. RemovedWasThere'
  BY <1>1, <1>2, <1>3 DEF TypeOK, RemovedWasThere, DevicePc
<1>7. DeletedProductsAreEmpty'
  BY <1>1, <1>2, <1>3
     DEF TypeOK, DeletedProductsAreEmpty, DeletionsKnown, Housed
<1>8. ShadowComesWithDevice'
  BY <1>1, <1>2, <1>3 DEF TypeOK, ShadowComesWithDevice, RemovedWasThere
<1> QED BY <1>4, <1>5, <1>6, <1>7, <1>8

\* A product comes to life once.
LEMMA InsertProductStep ==
  ASSUME Inv, NEW r \in Requests, InsertProduct(r)
  PROVE  Inv'
<1> USE DEF Inv, Moves
<1>1. pc[r] = "insertProduct" /\ item[r] \in Products
  BY DEF InsertProduct, TypeOK, ProductPc
<1>2. /\ product' \in [Products -> RowStatus]
      /\ \A p \in Products : \/ product'[p] = product[p]
                             \/ product[p] = "none" /\ product'[p] = "live"
      /\ UNCHANGED <<device, shadow, outrun, slipped, bare>>
  BY <1>1 DEF InsertProduct, TypeOK, RowStatus, history
<1>3. Moves(r) /\ pc'[r] = "idle" /\ item'[r] = NoItem
  BY EndCourse DEF InsertProduct
<1>4. TypeOK'
  BY <1>1, <1>2, <1>3 DEF TypeOK, RowStatus, AllPc, ProductPc, DevicePc
<1>5. DeletionsKnown'
  BY <1>1, <1>2, <1>3
     DEF TypeOK, DeletionsKnown, Housed, LiveDevices, ProductPc, DevicePc
<1>6. RemovedWasThere'
  BY <1>1, <1>2, <1>3 DEF TypeOK, RemovedWasThere, DevicePc
<1>7. DeletedProductsAreEmpty'
  BY <1>1, <1>2, <1>3
     DEF TypeOK, DeletedProductsAreEmpty, DeletionsKnown, Housed
<1>8. ShadowComesWithDevice'
  BY <1>1, <1>2, <1>3 DEF TypeOK, ShadowComesWithDevice, RemovedWasThere
<1> QED BY <1>4, <1>5, <1>6, <1>7, <1>8

\* A product is removed behind the back of the creations under way in it.
LEMMA RemoveProductStep ==
  ASSUME Inv, NEW r \in Requests, RemoveProduct(r)
  PROVE  Inv'
<1> USE DEF Inv, Moves
<1>1. pc[r] = "removeProduct" /\ item[r] \in Products
  BY DEF RemoveProduct, TypeOK, ProductPc
<1>2. /\ product' \in [Products -> RowStatus]
      /\ \A p \in Products : product'[p] = IF p = item[r] THEN "deleted" ELSE product[p]
      /\ outrun' = outrun \cup {q \in Requests : pc[q] \in Housed /\ ProductOf[item[q]] = item[r]}
      /\ UNCHANGED <<device, shadow, slipped, bare>>
  BY <1>1 DEF RemoveProduct, TypeOK, RowStatus, Housed
<1>3. Moves(r) /\ pc'[r] = "idle" /\ item'[r] = NoItem
  BY EndCourse DEF RemoveProduct
<1>4. TypeOK'
  BY <1>1, <1>2, <1>3 DEF TypeOK, RowStatus, AllPc, ProductPc, DevicePc
<1>5. DeletionsKnown'
  BY <1>1, <1>2, <1>3
     DEF TypeOK, DeletionsKnown, Housed, LiveDevices, ProductPc, DevicePc
<1>6. RemovedWasThere'
  BY <1>1, <1>2, <1>3 DEF TypeOK, RemovedWasThere, DevicePc
<1>7. DeletedProductsAreEmpty'
  BY <1>1, <1>2, <1>3
     DEF TypeOK, DeletedProductsAreEmpty, DeletionsKnown, Housed
<1>8. ShadowComesWithDevice'
  BY <1>1, <1>2, <1>3 DEF TypeOK, ShadowComesWithDevice, RemovedWasThere
<1> QED BY <1>4, <1>5, <1>6, <1>7, <1>8

\* A device created in a product that is deleted, or about to be, is on record.
LEMMA InsertDeviceStep ==
  ASSUME Inv, NEW r \in Requests, InsertDevice(r)
  PROVE  Inv'
<1> USE DEF Inv, Moves
<1>1. pc[r] = "insertDevice" /\ item[r] \in Devices
  BY DEF InsertDevice, TypeOK, DevicePc
<1>2. /\ outrun' = outrun \ {r}
      /\ UNCHANGED <<product, shadow, bare>>
  BY DEF InsertDevice
<1>3. /\ device' \in [Devices -> RowStatus]
      /\ Moves(r)
      /\ \/ /\ UNCHANGED <<device, slipped>>
            /\ pc'[r] = "idle" /\ item'[r] = NoItem
         \/ /\ device[item[r]] = "none"
            /\ \A d \in Devices : device'[d] = IF d = item[r] THEN "live" ELSE device[d]
            /\ slipped' = IF Overtakes(r) THEN slipped \cup {item[r]} ELSE slipped
            /\ pc'[r] = "insertShadow" /\ item'[r] = item[r]
  <2>1. CASE device[item[r]] = "none"
    <3>1. /\ device' = [device EXCEPT ![item[r]] = "live"]
          /\ slipped' = IF Overtakes(r) THEN slipped \cup {item[r]} ELSE slipped
          /\ Goto(r, "insertShadow")
      BY <2>1 DEF InsertDevice
    <3>2. Moves(r) /\ pc'[r] = "insertShadow" /\ item'[r] = item[r]
      BY <3>1, GotoCourse DEF AllPc, DevicePc
    <3> QED BY <1>1, <2>1, <3>1, <3>2 DEF TypeOK, RowStatus
  <2>2. CASE device[item[r]] # "none"
    BY <2>2, EndCourse DEF InsertDevice, TypeOK
  <2> QED BY <2>1, <2>2
<1>4. TypeOK'
  BY <1>1, <1>2, <1>3 DEF TypeOK, RowStatus, AllPc, ProductPc, DevicePc
<1>5. DeletionsKnown'
  BY <1>1, <1>2, <1>3
     DEF TypeOK, DeletionsKnown, Housed, LiveDevices, ProductPc, DevicePc, Overtakes
<1>6. RemovedWasThere'
  BY <1>1, <1>2, <1>3 DEF TypeOK, RemovedWasThere, DevicePc
<1>7. DeletedProductsAreEmpty'
  BY <1>1, <1>2, <1>3
     DEF TypeOK, DeletedProductsAreEmpty, DeletionsKnown, Housed, Overtakes
<1>8. ShadowComesWithDevice'
  BY <1>1, <1>2, <1>3 DEF TypeOK, ShadowComesWithDevice, RemovedWasThere
<1> QED BY <1>4, <1>5, <1>6, <1>7, <1>8

\* The shadow follows its device.
LEMMA InsertShadowStep ==
  ASSUME Inv, NEW r \in Requests, InsertShadow(r)
  PROVE  Inv'
<1> USE DEF Inv, Moves
<1>1. pc[r] = "insertShadow" /\ item[r] \in Devices
  BY DEF InsertShadow, TypeOK, DevicePc
<1>2. /\ shadow' = shadow \cup {item[r]}
      /\ UNCHANGED <<product, device, outrun, slipped, bare>>
  BY DEF InsertShadow, history
<1>3. Moves(r) /\ pc'[r] = "idle" /\ item'[r] = NoItem
  BY EndCourse DEF InsertShadow
<1>4. TypeOK'
  BY <1>1, <1>2, <1>3 DEF TypeOK, RowStatus, AllPc, ProductPc, DevicePc
<1>5. DeletionsKnown'
  BY <1>1, <1>2, <1>3
     DEF TypeOK, DeletionsKnown, Housed, LiveDevices, ProductPc, DevicePc
<1>6. RemovedWasThere'
  BY <1>1, <1>2, <1>3 DEF TypeOK, RemovedWasThere, DevicePc
<1>7. DeletedProductsAreEmpty'
  BY <1>1, <1>2, <1>3
     DEF TypeOK, DeletedProductsAreEmpty, DeletionsKnown, Housed
<1>8. ShadowComesWithDevice'
  BY <1>1, <1>2, <1>3 DEF TypeOK, ShadowComesWithDevice, RemovedWasThere
<1> QED BY <1>4, <1>5, <1>6, <1>7, <1>8

\* A device is deleted, not forgotten.
LEMMA RemoveDeviceStep ==
  ASSUME Inv, NEW r \in Requests, RemoveDevice(r)
  PROVE  Inv'
<1> USE DEF Inv, Moves
<1>1. pc[r] = "removeDevice" /\ item[r] \in Devices
  BY DEF RemoveDevice, TypeOK, DevicePc
<1>2. /\ device' \in [Devices -> RowStatus]
      /\ \A d \in Devices : device'[d] = IF d = item[r] THEN "deleted" ELSE device[d]
      /\ UNCHANGED <<product, shadow, outrun, slipped, bare>>
  BY <1>1 DEF RemoveDevice, TypeOK, RowStatus, history
<1>3. Moves(r) /\ pc'[r] = "idle" /\ item'[r] = NoItem
  BY EndCourse DEF RemoveDevice
<1>4. TypeOK'
  BY <1>1, <1>2, <1>3 DEF TypeOK, RowStatus, AllPc, ProductPc, DevicePc
<1>5. DeletionsKnown'
  BY <1>1, <1>2, <1>3
     DEF TypeOK, DeletionsKnown, Housed, LiveDevices, ProductPc, DevicePc
<1>6. RemovedWasThere'
  BY <1>1, <1>2, <1>3 DEF TypeOK, RemovedWasThere, DevicePc
<1>7. DeletedProductsAreEmpty'
  BY <1>1, <1>2, <1>3
     DEF TypeOK, DeletedProductsAreEmpty, DeletionsKnown, Housed
<1>8. ShadowComesWithDevice'
  BY <1>1, <1>2, <1>3 DEF TypeOK, ShadowComesWithDevice, RemovedWasThere
<1> QED BY <1>4, <1>5, <1>6, <1>7, <1>8

\* A creation that breaks off before its shadow is on record.
LEMMA AbortStep ==
  ASSUME Inv, NEW r \in Requests, Abort(r)
  PROVE  Inv'
<1> USE DEF Inv, Moves
<1>1. /\ outrun' = outrun \ {r}
      /\ bare' = IF pc[r] = "insertShadow" THEN bare \cup {item[r]} ELSE bare
      /\ UNCHANGED <<product, device, shadow, slipped>>
  BY DEF Abort, rows
<1>2. Moves(r) /\ pc'[r] = "idle" /\ item'[r] = NoItem
  BY EndCourse DEF Abort
<1>3. TypeOK'
  BY <1>1, <1>2 DEF TypeOK, RowStatus, AllPc, ProductPc, DevicePc
<1>4. DeletionsKnown'
  BY <1>1, <1>2
     DEF TypeOK, DeletionsKnown, Housed, LiveDevices, ProductPc, DevicePc
<1>5. RemovedWasThere'
  BY <1>1, <1>2 DEF TypeOK, RemovedWasThere, DevicePc
<1>6. DeletedProductsAreEmpty'
  BY <1>1, <1>2 DEF TypeOK, DeletedProductsAreEmpty, DeletionsKnown, Housed
<1>7. ShadowComesWithDevice'
  BY <1>1, <1>2 DEF TypeOK, ShadowComesWithDevice, RemovedWasThere
<1> QED BY <1>3, <1>4, <1>5, <1>6, <1>7

\* The inductive invariant is kept by every step.
LEMMA InvStep ==
  ASSUME Inv, [Next]_vars
  PROVE  Inv'
<1>1. ASSUME NEW r \in Requests, CreateProduct(r) \/ DeleteProduct(r) PROVE Inv'
  BY <1>1, CountProductsStep, FindKeyStep, InsertProductStep, FindProductStep,
     CountDevicesStep, RemoveProductStep DEF CreateProduct, DeleteProduct
<1>2. ASSUME NEW r \in Requests, CreateDevice(r) \/ DeleteDevice(r) PROVE Inv'
  BY <1>2, FindHomeStep, CountSiblingsStep, FindDeviceKeyStep, InsertDeviceStep,
     InsertShadowStep, FindDeviceStep, RemoveDeviceStep DEF CreateDevice, DeleteDevice
<1>3. CASE UNCHANGED vars
  BY <1>3 DEF vars, Inv, TypeOK, DeletionsKnown, RemovedWasThere,
              DeletedProductsAreEmpty, ShadowComesWithDevice
<1> QED BY <1>1, <1>2, <1>3, BeginStep, AbortStep DEF Next

-----------------------------------------------------------------------------
\* The inductive invariant holds in every reachable state.
THEOREM CatalogInvariant == Spec => []Inv
<1>1. Init => Inv
  BY InitInv
<1>2. Inv /\ [Next]_vars => Inv'
  BY InvStep
<1> QED BY <1>1, <1>2, PTL DEF Spec

\* The types hold: a request under way is about a product or a device.
THEOREM CatalogTypes == Spec => []TypeOK
<1>1. Inv => TypeOK
  BY DEF Inv
<1> QED BY <1>1, CatalogInvariant, PTL

\* A deleted product keeps only devices whose creation overlapped its deletion.
THEOREM DeletedProductsEmpty == Spec => []DeletedProductsAreEmpty
<1>1. Inv => DeletedProductsAreEmpty
  BY DEF Inv
<1> QED BY <1>1, CatalogInvariant, PTL

\* Only a creation that broke off leaves a device without a shadow.
THEOREM DevicesHaveShadows == Spec => []ShadowComesWithDevice
<1>1. Inv => ShadowComesWithDevice
  BY DEF Inv
<1> QED BY <1>1, CatalogInvariant, PTL

-----------------------------------------------------------------------------
(* The quotas.                                                             *)

AdmittedProducts == {r \in Requests : pc[r] \in {"findKey", "insertProduct"}}

AdmittedTo(p) ==
    {r \in Requests : /\ pc[r] \in {"findDeviceKey", "insertDevice"}
                      /\ ProductOf[item[r]] = p}

\* Where a request can be let in, and where it has been before.
LetInBy(r) ==
    /\ pc'[r] = "findKey" => Cardinality(LiveProducts) < MaxProducts
    /\ pc'[r] = "insertProduct" => pc[r] = "findKey"
    /\ pc'[r] = "findDeviceKey" =>
         /\ pc[r] = "countSiblings" /\ item'[r] = item[r]
         /\ Cardinality(LiveDevices(ProductOf[item[r]])) < MaxDevices
    /\ pc'[r] = "insertDevice" => pc[r] = "findDeviceKey" /\ item'[r] = item[r]

\* The live products and the live devices of a product can be counted.
LEMMA RowCounts ==
  /\ IsFiniteSet(LiveProducts) /\ Cardinality(LiveProducts) \in Nat
  /\ \A p \in Products : /\ IsFiniteSet(LiveDevices(p))
                         /\ Cardinality(LiveDevices(p)) \in Nat
<1>1. LiveProducts \subseteq Products /\ \A p \in Products : LiveDevices(p) \subseteq Devices
  BY DEF LiveProducts, LiveDevices
<1> QED BY <1>1, FS_Subset, FS_CardinalityType

\* Who is let in has counted fewer rows than the limit in its last statement.
LEMMA CountedBefore ==
  ASSUME TypeOK, NEW r \in Requests,
         \/ Begin(r) \/ CreateProduct(r) \/ DeleteProduct(r)
         \/ CreateDevice(r) \/ DeleteDevice(r) \/ Abort(r)
  PROVE  Moves(r) /\ LetInBy(r)
<1> USE DEF LetInBy
<1>1. CASE Begin(r)
  BY <1>1 DEF Begin, TypeOK, AllPc, ProductPc, DevicePc, Moves
<1>2. CASE End(r)
  BY <1>2, EndCourse
<1>3. CASE CreateProduct(r) \/ DeleteProduct(r)
  <2>1. CASE CountProducts(r) /\ ~End(r)
    BY <2>1, GotoCourse DEF CountProducts, Guarded, AllPc, ProductPc
  <2>2. CASE FindKey(r) /\ ~End(r)
    BY <2>2, GotoCourse DEF FindKey, Guarded, AllPc, ProductPc
  <2>3. CASE FindProduct(r) /\ ~End(r)
    BY <2>3, GotoCourse DEF FindProduct, Guarded, AllPc, ProductPc
  <2>4. CASE CountDevices(r) /\ ~End(r)
    BY <2>4, GotoCourse DEF CountDevices, Guarded, AllPc, ProductPc
  <2> QED BY <1>2, <1>3, <2>1, <2>2, <2>3, <2>4
          DEF CreateProduct, DeleteProduct, InsertProduct, RemoveProduct
<1>4. CASE CreateDevice(r) \/ DeleteDevice(r)
  <2>1. CASE FindHome(r) /\ ~End(r)
    BY <2>1, GotoCourse DEF FindHome, Guarded, AllPc, DevicePc
  <2>2. CASE CountSiblings(r) /\ ~End(r)
    BY <2>2, GotoCourse DEF CountSiblings, Admitted, Guarded, AllPc, DevicePc
  <2>3. CASE FindDeviceKey(r) /\ ~End(r)
    BY <2>3, GotoCourse DEF FindDeviceKey, Admitted, Guarded, AllPc, DevicePc
  <2>4. CASE InsertDevice(r) /\ ~End(r)
    BY <2>4, GotoCourse DEF InsertDevice, AllPc, DevicePc
  <2>5. CASE FindDevice(r) /\ ~End(r)
    BY <2>5, GotoCourse DEF FindDevice, Guarded, AllPc, DevicePc
  <2> QED BY <1>2, <1>4, <2>1, <2>2, <2>3, <2>4, <2>5
          DEF CreateDevice, DeleteDevice, InsertShadow, RemoveDevice
<1>5. CASE Abort(r)
  BY <1>2, <1>5 DEF Abort
<1> QED BY <1>1, <1>3, <1>4, <1>5

\* A step that leaves the number of products alone.
LEMMA ProductQuotaMove ==
  ASSUME NEW r \in Requests, Moves(r), LetInBy(r), LiveProducts' = LiveProducts
  PROVE  [ProductQuota!QuotaNext]_(ProductQuota!quotaVars)
<1>1. \A q \in Requests \ {r} : q \in AdmittedProducts' <=> q \in AdmittedProducts
  BY DEF Moves, AdmittedProducts
<1>2. CASE r \in AdmittedProducts <=> r \in AdmittedProducts'
  <2>1. AdmittedProducts' = AdmittedProducts
    BY <1>1, <1>2 DEF AdmittedProducts
  <2> QED BY <2>1 DEF ProductQuota!quotaVars, AdmittedProducts
<1>3. CASE r \in AdmittedProducts /\ r \notin AdmittedProducts'
  <2>1. AdmittedProducts' = AdmittedProducts \ {r}
    BY <1>1, <1>3 DEF AdmittedProducts
  <2>2. ProductQuota!Withdraw(r)
    BY <1>3, <2>1 DEF ProductQuota!Withdraw, AdmittedProducts
  <2> QED BY <2>2 DEF ProductQuota!QuotaNext
<1>4. CASE r \notin AdmittedProducts /\ r \in AdmittedProducts'
  <2>1. AdmittedProducts' = AdmittedProducts \cup {r}
    BY <1>1, <1>4 DEF AdmittedProducts
  <2>2. Cardinality(LiveProducts) < MaxProducts
    BY <1>4 DEF LetInBy, AdmittedProducts
  <2>3. ProductQuota!Admit(r)
    BY <1>4, <2>1, <2>2 DEF ProductQuota!Admit, AdmittedProducts
  <2> QED BY <2>3 DEF ProductQuota!QuotaNext
<1> QED BY <1>2, <1>3, <1>4

\* Every step of a request is a step of the product quota, or none.
LEMMA ProductQuotaStep ==
  ASSUME TypeOK, NEW r \in Requests,
         \/ Begin(r) \/ CreateProduct(r) \/ DeleteProduct(r)
         \/ CreateDevice(r) \/ DeleteDevice(r) \/ Abort(r)
  PROVE  [ProductQuota!QuotaNext]_(ProductQuota!quotaVars)
<1>1. Moves(r) /\ LetInBy(r)
  BY CountedBefore
<1>2. CASE LiveProducts' = LiveProducts
  BY <1>1, <1>2, ProductQuotaMove
<1>3. CASE LiveProducts' # LiveProducts
  <2>1. InsertProduct(r) \/ RemoveProduct(r)
    BY <1>3 DEF Begin, CreateProduct, DeleteProduct, CreateDevice, DeleteDevice, Abort,
                CountProducts, FindKey, FindProduct, CountDevices, FindHome,
                CountSiblings, FindDeviceKey, InsertDevice, InsertShadow, FindDevice,
                RemoveDevice, Admitted, rows, LiveProducts
  <2>2. CASE InsertProduct(r)
    <3>1. item[r] \in Products /\ pc[r] = "insertProduct" /\ End(r)
      BY <2>2 DEF InsertProduct, TypeOK, ProductPc
    <3>2. product[item[r]] = "none" /\ LiveProducts' = LiveProducts \cup {item[r]}
      BY <1>3, <2>2, <3>1 DEF InsertProduct, LiveProducts, TypeOK
    <3>3. item[r] \notin LiveProducts
      BY <3>2 DEF LiveProducts
    <3>4. Cardinality(LiveProducts') = Cardinality(LiveProducts) + 1
      BY <3>2, <3>3, RowCounts, FS_AddElement
    <3>5. pc'[r] = "idle"
      BY <3>1, EndCourse
    <3>6. r \in AdmittedProducts /\ AdmittedProducts' = AdmittedProducts \ {r}
      BY <1>1, <3>1, <3>5 DEF Moves, AdmittedProducts
    <3>7. ProductQuota!Occupy(r)
      BY <3>4, <3>6 DEF ProductQuota!Occupy, AdmittedProducts
    <3> QED BY <3>7 DEF ProductQuota!QuotaNext
  <2>3. CASE RemoveProduct(r)
    <3>1. item[r] \in Products /\ pc[r] = "removeProduct" /\ End(r)
      BY <2>3 DEF RemoveProduct, TypeOK, ProductPc
    <3>2. LiveProducts' = LiveProducts \ {item[r]} /\ item[r] \in LiveProducts
      BY <1>3, <2>3, <3>1 DEF RemoveProduct, LiveProducts, TypeOK
    <3>3. Cardinality(LiveProducts') = Cardinality(LiveProducts) - 1
      BY <3>2, RowCounts, FS_RemoveElement
    <3>4. Cardinality(LiveProducts) > 0
      BY <3>2, RowCounts, FS_EmptySet
    <3>5. pc'[r] = "idle"
      BY <3>1, EndCourse
    <3>6. AdmittedProducts' = AdmittedProducts
      BY <1>1, <3>1, <3>5 DEF Moves, AdmittedProducts
    <3>7. ProductQuota!Vacate
      BY <3>3, <3>4, <3>6 DEF ProductQuota!Vacate, AdmittedProducts
    <3> QED BY <3>7 DEF ProductQuota!QuotaNext
  <2> QED BY <2>1, <2>2, <2>3
<1> QED BY <1>2, <1>3

\* A step that leaves the number of p's devices alone.
LEMMA DeviceQuotaMove ==
  ASSUME NEW p \in Products, NEW r \in Requests, Moves(r), LetInBy(r),
         LiveDevices(p)' = LiveDevices(p)
  PROVE  [DeviceQuota(p)!QuotaNext]_(DeviceQuota(p)!quotaVars)
<1>1. \A q \in Requests \ {r} : q \in AdmittedTo(p)' <=> q \in AdmittedTo(p)
  BY DEF Moves, AdmittedTo
<1>2. CASE r \in AdmittedTo(p) <=> r \in AdmittedTo(p)'
  <2>1. AdmittedTo(p)' = AdmittedTo(p)
    BY <1>1, <1>2 DEF AdmittedTo
  <2> QED BY <2>1 DEF DeviceQuota!quotaVars, AdmittedTo
<1>3. CASE r \in AdmittedTo(p) /\ r \notin AdmittedTo(p)'
  <2>1. AdmittedTo(p)' = AdmittedTo(p) \ {r}
    BY <1>1, <1>3 DEF AdmittedTo
  <2>2. DeviceQuota(p)!Withdraw(r)
    BY <1>3, <2>1 DEF DeviceQuota!Withdraw, AdmittedTo
  <2> QED BY <2>2 DEF DeviceQuota!QuotaNext
<1>4. CASE r \notin AdmittedTo(p) /\ r \in AdmittedTo(p)'
  <2>1. AdmittedTo(p)' = AdmittedTo(p) \cup {r}
    BY <1>1, <1>4 DEF AdmittedTo
  <2>2. Cardinality(LiveDevices(p)) < MaxDevices
    BY <1>4 DEF LetInBy, AdmittedTo
  <2>3. DeviceQuota(p)!Admit(r)
    BY <1>4, <2>1, <2>2 DEF DeviceQuota!Admit, AdmittedTo
  <2> QED BY <2>3 DEF DeviceQuota!QuotaNext
<1> QED BY <1>2, <1>3, <1>4

\* Every step of a request is a step of each product's device quota, or none.
LEMMA DeviceQuotaStep ==
  ASSUME TypeOK, NEW p \in Products, NEW r \in Requests,
         \/ Begin(r) \/ CreateProduct(r) \/ DeleteProduct(r)
         \/ CreateDevice(r) \/ DeleteDevice(r) \/ Abort(r)
  PROVE  [DeviceQuota(p)!QuotaNext]_(DeviceQuota(p)!quotaVars)
<1>1. Moves(r) /\ LetInBy(r)
  BY CountedBefore
<1>2. CASE LiveDevices(p)' = LiveDevices(p)
  BY <1>1, <1>2, DeviceQuotaMove
<1>3. CASE LiveDevices(p)' # LiveDevices(p)
  <2>1. InsertDevice(r) \/ RemoveDevice(r)
    BY <1>3 DEF Begin, CreateProduct, DeleteProduct, CreateDevice, DeleteDevice, Abort,
                CountProducts, FindKey, InsertProduct, FindProduct, CountDevices,
                RemoveProduct, FindHome, CountSiblings, FindDeviceKey, InsertShadow,
                FindDevice, Admitted, rows, LiveDevices
  <2>2. CASE InsertDevice(r)
    <3>1. item[r] \in Devices /\ pc[r] = "insertDevice"
      BY <2>2 DEF InsertDevice, TypeOK, DevicePc
    <3>2. /\ device[item[r]] = "none" /\ ProductOf[item[r]] = p
          /\ LiveDevices(p)' = LiveDevices(p) \cup {item[r]}
      BY <1>3, <2>2, <3>1 DEF InsertDevice, LiveDevices, TypeOK
    <3>3. item[r] \notin LiveDevices(p)
      BY <3>2 DEF LiveDevices
    <3>4. Cardinality(LiveDevices(p)') = Cardinality(LiveDevices(p)) + 1
      <4>1. IsFiniteSet(LiveDevices(p))
        BY RowCounts
      <4>2. Cardinality(LiveDevices(p) \cup {item[r]}) = Cardinality(LiveDevices(p)) + 1
        BY <3>3, <4>1, FS_AddElement
      <4> QED BY <3>2, <4>2
    <3>5. pc'[r] = "insertShadow"
      BY <2>2, <3>2, GotoCourse DEF InsertDevice, AllPc, DevicePc
    <3>6. r \in AdmittedTo(p) /\ AdmittedTo(p)' = AdmittedTo(p) \ {r}
      BY <1>1, <3>1, <3>2, <3>5 DEF Moves, AdmittedTo
    <3>7. DeviceQuota(p)!Occupy(r)
      BY <3>4, <3>6 DEF DeviceQuota!Occupy, AdmittedTo
    <3> QED BY <3>7 DEF DeviceQuota!QuotaNext
  <2>3. CASE RemoveDevice(r)
    <3>1. item[r] \in Devices /\ pc[r] = "removeDevice" /\ End(r)
      BY <2>3 DEF RemoveDevice, TypeOK, DevicePc
    <3>2. LiveDevices(p)' = LiveDevices(p) \ {item[r]} /\ item[r] \in LiveDevices(p)
      BY <1>3, <2>3, <3>1 DEF RemoveDevice, LiveDevices, TypeOK
    <3>3. Cardinality(LiveDevices(p)') = Cardinality(LiveDevices(p)) - 1
      <4>1. IsFiniteSet(LiveDevices(p))
        BY RowCounts
      <4>2. Cardinality(LiveDevices(p) \ {item[r]}) = Cardinality(LiveDevices(p)) - 1
        BY <3>2, <4>1, FS_RemoveElement
      <4> QED BY <3>2, <4>2
    <3>4. Cardinality(LiveDevices(p)) > 0
      BY <3>2, RowCounts, FS_EmptySet
    <3>5. pc'[r] = "idle"
      BY <3>1, EndCourse
    <3>6. AdmittedTo(p)' = AdmittedTo(p)
      BY <1>1, <3>1, <3>5 DEF Moves, AdmittedTo
    <3>7. DeviceQuota(p)!Vacate
      BY <3>3, <3>4, <3>6 DEF DeviceQuota!Vacate, AdmittedTo
    <3> QED BY <3>7 DEF DeviceQuota!QuotaNext
  <2> QED BY <2>1, <2>2, <2>3
<1> QED BY <1>2, <1>3

\* Products, and the devices of each product, are counted and created as the
\* abstract quota allows.
THEOREM CatalogQuotas == Spec => ImplementsQuotas
<1>1. Init => ProductQuota!QuotaInit
  <2> SUFFICES ASSUME Init PROVE ProductQuota!QuotaInit
    OBVIOUS
  <2>1. LiveProducts = {} /\ AdmittedProducts = {}
    BY DEF Init, LiveProducts, AdmittedProducts
  <2> QED BY <2>1, FS_EmptySet DEF ProductQuota!QuotaInit, AdmittedProducts
<1>2. Init => \A p \in Products : DeviceQuota(p)!QuotaInit
  <2> SUFFICES ASSUME Init, NEW p \in Products PROVE DeviceQuota(p)!QuotaInit
    OBVIOUS
  <2>1. LiveDevices(p) = {} /\ AdmittedTo(p) = {}
    BY DEF Init, LiveDevices, AdmittedTo
  <2> QED BY <2>1, FS_EmptySet DEF DeviceQuota!QuotaInit, AdmittedTo
<1>3. Inv /\ [Next]_vars => [ProductQuota!QuotaNext]_(ProductQuota!quotaVars)
  <2> SUFFICES ASSUME Inv, [Next]_vars
               PROVE  [ProductQuota!QuotaNext]_(ProductQuota!quotaVars)
    OBVIOUS
  <2>1. CASE Next
    BY <2>1, ProductQuotaStep DEF Next, Inv
  <2>2. CASE UNCHANGED vars
    BY <2>2 DEF vars, ProductQuota!quotaVars, LiveProducts
  <2> QED BY <2>1, <2>2
<1>4. Inv /\ [Next]_vars =>
        [\A p \in Products : [DeviceQuota(p)!QuotaNext]_(DeviceQuota(p)!quotaVars)]_vars
  BY DeviceQuotaStep DEF Next, Inv
<1> QED BY <1>1, <1>2, <1>3, <1>4, CatalogInvariant, PTL
        DEF Spec, ImplementsQuotas, ProductQuota!QuotaSpec

-----------------------------------------------------------------------------
(* By how much the limits are overrun.                                     *)

\* Requests that were let in are counted.
LEMMA AdmittedCount ==
  ASSUME NEW A \in SUBSET Requests
  PROVE  /\ IsFiniteSet(A) /\ Cardinality(A) \in Nat
         /\ Cardinality(Requests) \in Nat /\ Cardinality(A) <= Cardinality(Requests)
  BY FS_Subset, FS_CardinalityType

\* The bound on the overrun survives any step of a quota, told by the rows u and
\* the requests A before it, and the rows v and the requests B after it.
LEMMA BoundKept ==
  ASSUME NEW A \in SUBSET Requests, NEW B \in SUBSET Requests,
         NEW u \in Nat, NEW v \in Nat, NEW limit \in Nat,
         u + Cardinality(A) < limit + Cardinality(Requests),
         \/ u < limit /\ v = u
         \/ \E r \in A : B = A \ {r} /\ v <= u + 1
         \/ B = A /\ v <= u
  PROVE  v + Cardinality(B) < limit + Cardinality(Requests)
<1>1. /\ Cardinality(A) \in Nat /\ Cardinality(B) \in Nat
      /\ Cardinality(Requests) \in Nat
      /\ IsFiniteSet(A) /\ Cardinality(B) <= Cardinality(Requests)
  BY AdmittedCount
<1>2. ASSUME NEW r \in A, B = A \ {r}, v <= u + 1
      PROVE  v + Cardinality(B) < limit + Cardinality(Requests)
  <2>1. Cardinality(B) = Cardinality(A) - 1
    BY <1>1, <1>2, FS_RemoveElement
  <2> QED BY <1>1, <1>2, <2>1
<1> QED BY <1>1, <1>2

\* The instances count sets like any other module.
LEMMA QuotaCardinality ==
  /\ \A S : ProductQuota!Cardinality(S) = Cardinality(S)
  /\ \A p, S : DeviceQuota(p)!Cardinality(S) = Cardinality(S)
<1>1. \A S : ProductQuota!Cardinality(S) = Cardinality(S)
  BY Zenon DEF ProductQuota!Cardinality, Cardinality
<1>2. \A p, S : DeviceQuota(p)!Cardinality(S) = Cardinality(S)
  BY Zenon DEF DeviceQuota!Cardinality, Cardinality
<1> QED BY <1>1, <1>2

\* The bound on the products is kept by every step.
LEMMA ProductOverrunStep ==
  ASSUME ProductQuota!OverrunBounded,
         [ProductQuota!QuotaNext]_(ProductQuota!quotaVars)
  PROVE  ProductQuota!OverrunBounded'
<1> DEFINE u == Cardinality(LiveProducts)
<1>1. u + Cardinality(AdmittedProducts) < MaxProducts + Cardinality(Requests)
  BY QuotaCardinality DEF ProductQuota!OverrunBounded, AdmittedProducts
<1>2. /\ u \in Nat /\ u' \in Nat
      /\ AdmittedProducts \in SUBSET Requests /\ AdmittedProducts' \in SUBSET Requests
  <2>1. LiveProducts' \in SUBSET Products
    BY DEF LiveProducts
  <2> QED BY <2>1, RowCounts, FS_Subset, FS_CardinalityType DEF AdmittedProducts
<1>3. \/ u < MaxProducts /\ u' = u
      \/ \E r \in AdmittedProducts :
           AdmittedProducts' = AdmittedProducts \ {r} /\ u' <= u + 1
      \/ AdmittedProducts' = AdmittedProducts /\ u' <= u
  <2>1. ASSUME NEW r \in Requests, ProductQuota!Admit(r) PROVE u < MaxProducts /\ u' = u
    BY <2>1 DEF ProductQuota!Admit
  <2>2. ASSUME NEW r \in Requests, ProductQuota!Occupy(r) \/ ProductQuota!Withdraw(r)
        PROVE  /\ r \in AdmittedProducts /\ AdmittedProducts' = AdmittedProducts \ {r}
               /\ u' <= u + 1
    BY <1>2, <2>2 DEF ProductQuota!Occupy, ProductQuota!Withdraw, AdmittedProducts
  <2>3. CASE ProductQuota!Vacate
    BY <1>2, <2>3 DEF ProductQuota!Vacate, AdmittedProducts
  <2>4. CASE UNCHANGED ProductQuota!quotaVars
    BY <1>2, <2>4 DEF ProductQuota!quotaVars, AdmittedProducts
  <2> QED BY <2>1, <2>2, <2>3, <2>4 DEF ProductQuota!QuotaNext
<1> HIDE DEF u
<1>4. u' + Cardinality(AdmittedProducts') < MaxProducts + Cardinality(Requests)
  BY <1>1, <1>2, <1>3, BoundKept
<1> QED BY <1>4, QuotaCardinality DEF u, ProductQuota!OverrunBounded, AdmittedProducts

\* So is the bound on the devices of each product.
LEMMA DeviceOverrunStep ==
  ASSUME NEW p \in Products, DeviceQuota(p)!OverrunBounded,
         [DeviceQuota(p)!QuotaNext]_(DeviceQuota(p)!quotaVars)
  PROVE  DeviceQuota(p)!OverrunBounded'
<1> DEFINE u == Cardinality(LiveDevices(p))
<1>1. u + Cardinality(AdmittedTo(p)) < MaxDevices + Cardinality(Requests)
  BY QuotaCardinality DEF DeviceQuota!OverrunBounded, AdmittedTo
<1>2. /\ u \in Nat /\ u' \in Nat
      /\ AdmittedTo(p) \in SUBSET Requests /\ AdmittedTo(p)' \in SUBSET Requests
  <2>1. LiveDevices(p)' \in SUBSET Devices
    BY DEF LiveDevices
  <2> QED BY <2>1, RowCounts, FS_Subset, FS_CardinalityType DEF AdmittedTo
<1>3. \/ u < MaxDevices /\ u' = u
      \/ \E r \in AdmittedTo(p) : AdmittedTo(p)' = AdmittedTo(p) \ {r} /\ u' <= u + 1
      \/ AdmittedTo(p)' = AdmittedTo(p) /\ u' <= u
  <2>1. ASSUME NEW r \in Requests, DeviceQuota(p)!Admit(r)
        PROVE  u < MaxDevices /\ u' = u
    BY <2>1 DEF DeviceQuota!Admit
  <2>2. ASSUME NEW r \in Requests, DeviceQuota(p)!Occupy(r) \/ DeviceQuota(p)!Withdraw(r)
        PROVE  /\ r \in AdmittedTo(p) /\ AdmittedTo(p)' = AdmittedTo(p) \ {r}
               /\ u' <= u + 1
    BY <1>2, <2>2 DEF DeviceQuota!Occupy, DeviceQuota!Withdraw, AdmittedTo
  <2>3. CASE DeviceQuota(p)!Vacate
    BY <1>2, <2>3 DEF DeviceQuota!Vacate, AdmittedTo
  <2>4. CASE UNCHANGED DeviceQuota(p)!quotaVars
    BY <1>2, <2>4 DEF DeviceQuota!quotaVars, AdmittedTo
  <2> QED BY <2>1, <2>2, <2>3, <2>4 DEF DeviceQuota!QuotaNext
<1> HIDE DEF u
<1>4. u' + Cardinality(AdmittedTo(p)') < MaxDevices + Cardinality(Requests)
  BY <1>1, <1>2, <1>3, BoundKept
<1> QED BY <1>4, QuotaCardinality DEF u, DeviceQuota!OverrunBounded, AdmittedTo

\* A user's products, with the creations that were let in, exceed the limit by
\* less than the number of requests served together.
THEOREM ProductOverrun == Spec => []ProductQuota!OverrunBounded
<1>1. Init => ProductQuota!OverrunBounded
  <2> SUFFICES ASSUME Init PROVE ProductQuota!OverrunBounded
    OBVIOUS
  <2>1. LiveProducts = {} /\ AdmittedProducts = {}
    BY DEF Init, LiveProducts, AdmittedProducts
  <2>2. Cardinality(LiveProducts) + Cardinality(AdmittedProducts)
          < MaxProducts + Cardinality(Requests)
    BY <2>1, FS_EmptySet, FS_CardinalityType
  <2> QED BY <2>2, QuotaCardinality DEF ProductQuota!OverrunBounded, AdmittedProducts
<1>2. ASSUME Inv, ProductQuota!OverrunBounded, [Next]_vars
      PROVE  ProductQuota!OverrunBounded'
  <2>1. CASE Next
    BY <1>2, <2>1, ProductQuotaStep, ProductOverrunStep DEF Next, Inv
  <2>2. CASE UNCHANGED vars
    <3>1. UNCHANGED ProductQuota!quotaVars
      BY <2>2 DEF vars, ProductQuota!quotaVars, LiveProducts
    <3> QED BY <1>2, <3>1, ProductOverrunStep
  <2> QED BY <1>2, <2>1, <2>2
<1> QED BY <1>1, <1>2, CatalogInvariant, PTL DEF Spec

\* The devices of each product likewise.
THEOREM DeviceOverrun == Spec => [](\A p \in Products : DeviceQuota(p)!OverrunBounded)
<1>1. Init => \A p \in Products : DeviceQuota(p)!OverrunBounded
  <2> SUFFICES ASSUME Init, NEW p \in Products PROVE DeviceQuota(p)!OverrunBounded
    OBVIOUS
  <2>1. LiveDevices(p) = {} /\ AdmittedTo(p) = {}
    BY DEF Init, LiveDevices, AdmittedTo
  <2>2. Cardinality(LiveDevices(p)) + Cardinality(AdmittedTo(p))
          < MaxDevices + Cardinality(Requests)
    BY <2>1, FS_EmptySet, FS_CardinalityType
  <2> QED BY <2>2, QuotaCardinality DEF DeviceQuota!OverrunBounded, AdmittedTo
<1>2. ASSUME Inv, \A p \in Products : DeviceQuota(p)!OverrunBounded, [Next]_vars,
             NEW p \in Products
      PROVE  DeviceQuota(p)!OverrunBounded'
  <2>1. CASE Next
    BY <1>2, <2>1, DeviceQuotaStep, DeviceOverrunStep DEF Next, Inv
  <2>2. CASE UNCHANGED vars
    <3>1. UNCHANGED DeviceQuota(p)!quotaVars
      BY <2>2 DEF vars, DeviceQuota!quotaVars, LiveDevices
    <3> QED BY <1>2, <3>1, DeviceOverrunStep
  <2> QED BY <1>2, <2>1, <2>2
<1>3. Inv /\ (\A p \in Products : DeviceQuota(p)!OverrunBounded) /\ [Next]_vars
        => (\A p \in Products : DeviceQuota(p)!OverrunBounded)'
  BY <1>2
<1> QED BY <1>1, <1>3, CatalogInvariant, PTL DEF Spec
=============================================================================
