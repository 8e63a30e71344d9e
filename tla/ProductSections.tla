--------------------------- MODULE ProductSections ---------------------------
(***************************************************************************)
(* The sections of the admin products page as the fields their code names, *)
(* in the way of SystemSections: columns and form (products/sections.tsx), *)
(* payload and answer (adminProducts.ts), local draft (products/draft.ts). *)
(***************************************************************************)

ProductRow == {"key", "productType", "sku", "nameZh", "nameEn", "badgeZh", "badgeEn",
               "cycleLabelZh", "cycleLabelEn", "deliveryLabelZh", "deliveryLabelEn",
               "stockLabelZh", "stockLabelEn", "statusLabelZh", "statusLabelEn",
               "currency", "displayPrice", "originalPrice", "billingCycle", "inventory",
               "tagsZh", "tagsEn", "checkoutNotesZh", "checkoutNotesEn", "artVariant",
               "enabled", "sortOrder", "paymentMethods", "fulfillmentStrategyKey",
               "deliveryStrategyKey"}
ProductShown == {"nameEn", "productType", "sku", "billingCycle", "displayPrice",
                 "paymentMethods", "fulfillmentStrategyKey", "deliveryStrategyKey",
                 "inventory", "sortOrder", "enabled"}
ProductForm == ProductRow \ {"key"}
ProductSent == {"productType", "sku", "nameZh", "nameEn", "badgeZh", "badgeEn",
                "cycleLabelZh", "cycleLabelEn", "deliveryLabelZh", "deliveryLabelEn",
                "stockLabelZh", "stockLabelEn", "statusLabelZh", "statusLabelEn",
                "currency", "displayPrice", "originalPrice", "billingCycle", "inventory",
                "tagsZh", "tagsEn", "checkoutNotesZh", "checkoutNotesEn", "artVariant",
                "enabled", "sortOrder", "paymentMethods", "fulfillmentStrategyKey",
                "deliveryStrategyKey"}
ProductRead == ProductRow
ProductKept == ProductRow

PriceTemplateRow == {"key", "productSku", "templateName", "paymentMethod", "amount",
                     "originalAmount", "currency", "billingCycle", "enabled", "sortOrder"}
PriceTemplateShown == PriceTemplateRow \ {"key", "originalAmount", "currency"}
PriceTemplateForm == PriceTemplateRow \ {"key"}
\* The product of a template is sent as the route only.
PriceTemplateSent == PriceTemplateRow \ {"key", "productSku"}
PriceTemplateRead == PriceTemplateRow
PriceTemplateKept == PriceTemplateRow

Products ==
    [ident |-> "sku", row |-> ProductRow, shown |-> ProductShown, form |-> ProductForm,
     sent |-> ProductSent, read |-> ProductRead, kept |-> ProductKept,
     can |-> {"create", "edit", "delete"}]
PriceTemplates ==
    [ident |-> "templateName", row |-> PriceTemplateRow, shown |-> PriceTemplateShown,
     form |-> PriceTemplateForm, sent |-> PriceTemplateSent, read |-> PriceTemplateRead,
     kept |-> PriceTemplateKept, can |-> {"create", "edit", "delete"}]
=============================================================================
