------------------------------ MODULE Catalog ------------------------------
(***************************************************************************)
(* Products and devices of one user, who is not exempt from the quotas:    *)
(* lib/products/product-service.ts and lib/devices/device-service.ts.      *)
(* Every request runs its statements one by one, without a transaction,    *)
(* between those of the others.  A product stands for its product_key, a   *)
(* device for its product and device_key, which are unique in the tables   *)
(* and stay taken after a (soft) deletion.                                 *)
(***************************************************************************)
EXTENDS Naturals, FiniteSets

CONSTANTS
    Products, Devices,
    ProductOf,    \* the product each device is created in
    Requests,     \* requests that may be served together
    NoItem,       \* of a request that is not under way
    MaxProducts,  \* MAX_PRODUCTS_PER_USER
    MaxDevices    \* MAX_DEVICES_PER_PRODUCT

ASSUME CatalogAssumption ==
    /\ IsFiniteSet(Products) /\ IsFiniteSet(Devices) /\ IsFiniteSet(Requests)
    /\ Products \cap Devices = {}
    /\ NoItem \notin Products \cup Devices
    /\ ProductOf \in [Devices -> Products]
    /\ MaxProducts \in Nat \ {0} /\ MaxDevices \in Nat \ {0}

VARIABLES
    product, device,  \* the rows
    shadow,           \* devices that have a shadow
    pc,               \* next statement of each request
    item,             \* the product or device each request is about
    outrun,           \* history: creations whose product was deleted under them
    slipped,          \* history: devices created behind a deletion's count
    bare              \* history: devices whose creation broke off half-way

vars == <<product, device, shadow, pc, item, outrun, slipped, bare>>
rows == <<product, device, shadow>>
history == <<outrun, slipped, bare>>

-----------------------------------------------------------------------------
RowStatus == {"none", "live", "deleted"}

ProductPc == {"countProducts", "findKey", "insertProduct",
              "findProduct", "countDevices", "removeProduct"}
DevicePc == {"findHome", "countSiblings", "findDeviceKey", "insertDevice",
             "insertShadow", "findDevice", "removeDevice"}

TypeOK ==
    /\ product \in [Products -> RowStatus]
    /\ device \in [Devices -> RowStatus]
    /\ shadow \subseteq Devices
    /\ pc \in [Requests -> ProductPc \cup DevicePc \cup {"idle"}]
    /\ item \in [Requests -> Products \cup Devices \cup {NoItem}]
    /\ \A r \in Requests : /\ pc[r] \in ProductPc => item[r] \in Products
                           /\ pc[r] \in DevicePc => item[r] \in Devices
    /\ outrun \subseteq Requests
    /\ slipped \subseteq Devices
    /\ bare \subseteq Devices

LiveProducts == {p \in Products : product[p] = "live"}
LiveDevices(p) == {d \in Devices : ProductOf[d] = p /\ device[d] = "live"}

Init ==
    /\ product = [p \in Products |-> "none"]
    /\ device = [d \in Devices |-> "none"]
    /\ shadow = {}
    /\ pc = [r \in Requests |-> "idle"]
    /\ item = [r \in Requests |-> NoItem]
    /\ outrun = {}
    /\ slipped = {}
    /\ bare = {}

-----------------------------------------------------------------------------
(* A request's course.                                                     *)

Goto(r, label) ==
    /\ pc' = [pc EXCEPT ![r] = label]
    /\ UNCHANGED item

\* Mutated: the request goes on without its item.
EndHalf(r) ==
    /\ pc' = pc
    /\ item' = [item EXCEPT ![r] = NoItem]

End(r) ==
    /\ pc' = [pc EXCEPT ![r] = "idle"]
    /\ item' = [item EXCEPT ![r] = NoItem]

\* The statement's condition decides between the next one and an error.
Guarded(r, condition, label) == IF condition THEN Goto(r, label) ELSE End(r)

Begin(r) ==
    /\ pc[r] = "idle"
    /\ \/ \E label \in {"countProducts", "findProduct"}, p \in Products :
            /\ pc' = [pc EXCEPT ![r] = label]
            /\ item' = [item EXCEPT ![r] = p]
       \/ \E label \in {"findHome", "findDevice"}, d \in Devices :
            /\ pc' = [pc EXCEPT ![r] = label]
            /\ item' = [item EXCEPT ![r] = d]
    /\ UNCHANGED <<rows, history>>

\* A statement throws, or the process dies.
Abort(r) ==
    /\ pc[r] # "idle"
    /\ End(r)
    /\ bare' = IF pc[r] = "insertShadow" THEN bare \cup {item[r]} ELSE bare
    /\ outrun' = outrun \ {r}
    /\ UNCHANGED <<rows, slipped>>

-----------------------------------------------------------------------------
(* createProduct                                                           *)

CountProducts(r) ==
    /\ pc[r] = "countProducts"
    /\ Guarded(r, Cardinality(LiveProducts) < MaxProducts, "findKey")
    /\ UNCHANGED <<rows, history>>

FindKey(r) ==
    /\ pc[r] = "findKey"
    /\ Guarded(r, product[item[r]] = "none", "insertProduct")
    /\ UNCHANGED <<rows, history>>

\* The unique index refuses a key that was taken meanwhile.
InsertProduct(r) ==
    /\ pc[r] = "insertProduct"
    /\ product' = [product EXCEPT ![item[r]] = IF @ = "none" THEN "live" ELSE @]
    /\ End(r)
    /\ UNCHANGED <<device, shadow, history>>

-----------------------------------------------------------------------------
(* deleteProduct                                                           *)

FindProduct(r) ==
    /\ pc[r] = "findProduct"
    /\ Guarded(r, product[item[r]] = "live", "countDevices")
    /\ UNCHANGED <<rows, history>>

\* Mutated: the devices are not counted.
CountDevicesNever(r) ==
    /\ pc[r] = "countDevices"
    /\ Goto(r, "removeProduct")
    /\ UNCHANGED <<rows, history>>

CountDevices(r) ==
    /\ pc[r] = "countDevices"
    /\ Guarded(r, LiveDevices(item[r]) = {}, "removeProduct")
    /\ UNCHANGED <<rows, history>>

\* The update names the product by its id alone.
RemoveProduct(r) ==
    /\ pc[r] = "removeProduct"
    /\ product' = [product EXCEPT ![item[r]] = "deleted"]
    /\ outrun' = outrun \cup
         {q \in Requests : /\ pc[q] \in {"countSiblings", "findDeviceKey", "insertDevice"}
                           /\ ProductOf[item[q]] = item[r]}
    /\ End(r)
    /\ UNCHANGED <<device, shadow, slipped, bare>>

-----------------------------------------------------------------------------
(* createDevice                                                            *)

FindHome(r) ==
    /\ pc[r] = "findHome"
    /\ Guarded(r, product[ProductOf[item[r]]] = "live", "countSiblings")
    /\ UNCHANGED <<rows, history>>

\* Refused, the request is forgotten.
Admitted(r, condition, label) ==
    /\ Guarded(r, condition, label)
    /\ outrun' = IF condition THEN outrun ELSE outrun \ {r}
    /\ UNCHANGED <<rows, slipped, bare>>

\* Mutated: one device too many is let in.
CountSiblingsOneMore(r) ==
    /\ pc[r] = "countSiblings"
    /\ Admitted(r, Cardinality(LiveDevices(ProductOf[item[r]])) <= MaxDevices,
                "findDeviceKey")

CountSiblings(r) ==
    /\ pc[r] = "countSiblings"
    /\ Admitted(r, Cardinality(LiveDevices(ProductOf[item[r]])) < MaxDevices,
                "findDeviceKey")

FindDeviceKey(r) ==
    /\ pc[r] = "findDeviceKey"
    /\ Admitted(r, device[item[r]] = "none", "insertDevice")

\* A deletion of the product that has counted its devices does not see this one.
Overtakes(r) ==
    \/ r \in outrun
    \/ \E q \in Requests : pc[q] = "removeProduct" /\ item[q] = ProductOf[item[r]]

InsertDevice(r) ==
    /\ pc[r] = "insertDevice"
    /\ outrun' = outrun \ {r}
    /\ IF device[item[r]] = "none"
       THEN /\ device' = [device EXCEPT ![item[r]] = "live"]
            /\ slipped' = IF Overtakes(r) THEN slipped \cup {item[r]} ELSE slipped
            /\ Goto(r, "insertShadow")
       ELSE /\ UNCHANGED <<device, slipped>>
            /\ End(r)
    /\ UNCHANGED <<product, shadow, bare>>

\* Mutated: the shadow is left to the first report.
InsertShadowLazily(r) ==
    /\ pc[r] = "insertShadow"
    /\ End(r)
    /\ UNCHANGED <<rows, history>>

InsertShadow(r) ==
    /\ pc[r] = "insertShadow"
    /\ shadow' = shadow \cup {item[r]}
    /\ End(r)
    /\ UNCHANGED <<product, device, history>>

-----------------------------------------------------------------------------
(* deleteDevice                                                            *)

FindDevice(r) ==
    /\ pc[r] = "findDevice"
    /\ Guarded(r, device[item[r]] = "live", "removeDevice")
    /\ UNCHANGED <<rows, history>>

RemoveDevice(r) ==
    /\ pc[r] = "removeDevice"
    /\ device' = [device EXCEPT ![item[r]] = "deleted"]
    /\ End(r)
    /\ UNCHANGED <<product, shadow, history>>

-----------------------------------------------------------------------------
CreateProduct(r) == CountProducts(r) \/ FindKey(r) \/ InsertProduct(r)
DeleteProduct(r) == FindProduct(r) \/ CountDevices(r) \/ RemoveProduct(r)
CreateDevice(r) == \/ FindHome(r) \/ CountSiblings(r) \/ FindDeviceKey(r)
                   \/ InsertDevice(r) \/ InsertShadow(r)
DeleteDevice(r) == FindDevice(r) \/ RemoveDevice(r)

Next == \E r \in Requests :
          \/ Begin(r)
          \/ CreateProduct(r) \/ DeleteProduct(r)
          \/ CreateDevice(r) \/ DeleteDevice(r)
          \/ Abort(r)

Spec == Init /\ [][Next]_vars

-----------------------------------------------------------------------------
(* Safety.                                                                 *)

\* A deleted product keeps no devices, but for those whose creation overlapped
\* with its deletion: it was found before, or counted without them.
DeletedProductsAreEmpty ==
    \A d \in Devices : device[d] = "live" /\ product[ProductOf[d]] = "deleted"
                       => d \in slipped

\* A device without a shadow is still being created, or its creation broke off
\* between the two inserts: nothing else leaves one without.
ShadowComesWithDevice ==
    \A d \in Devices : device[d] # "none" =>
      \/ d \in shadow
      \/ d \in bare
      \/ \E r \in Requests : pc[r] = "insertShadow" /\ item[r] = d

-----------------------------------------------------------------------------
(* The quotas.                                                             *)

ProductQuota == INSTANCE Quota WITH
    Limit <- MaxProducts,
    used <- Cardinality(LiveProducts),
    admitted <- {r \in Requests : pc[r] \in {"findKey", "insertProduct"}}

DeviceQuota(p) == INSTANCE Quota WITH
    Limit <- MaxDevices,
    used <- Cardinality(LiveDevices(p)),
    admitted <- {r \in Requests : /\ pc[r] \in {"findDeviceKey", "insertDevice"}
                                  /\ ProductOf[item[r]] = p}

\* Products are counted and created as the abstract quota allows, and so are
\* the devices of each product.
ImplementsQuotas ==
    /\ ProductQuota!QuotaSpec
    /\ \A p \in Products : DeviceQuota(p)!QuotaInit
    /\ [][\A p \in Products :
             [DeviceQuota(p)!QuotaNext]_(DeviceQuota(p)!quotaVars)]_vars
=============================================================================
